---- MODULE Spec2Model ----
(***************************************************************************)
(* venice-cli: the upload pipeline (src/src/upload.rs and                  *)
(* src/shared/src/upload.rs) and the radio channel negotiation             *)
(* (switch_radio_channel), as a state machine.                             *)
(*                                                                         *)
(* The repository holds two implementations of `upload`: the one of the    *)
(* root crate (src/src/upload.rs, with radio negotiation) and the one of   *)
(* the shared crate (src/shared/src/upload.rs, which hands the transfers   *)
(* to upload_inner).  `impl` selects which one a run executes.             *)
(*                                                                         *)
(* Every device request is two steps: the request is put on the            *)
(* connection (`inflight`), then the handshake or command returns with an  *)
(* outcome chosen by the device and the transport.                         *)
(*                                                                         *)
(* The command line in front of upload (src/cli/src/main.rs, run.rs) hands *)
(* it a post-upload action; the upload(dir, after_upload) it calls is the  *)
(* third value of `impl`.  build (src/src/build.rs, and the older one of   *)
(* src/src/main.rs) runs over a project directory `disk` whose files carry *)
(* a modification time and a content revision.                             *)
(*                                                                         *)
(* find_modules, the module names and the generation of the program table  *)
(* run over a source tree whose names are sequences of characters, and     *)
(* RtVersion::from_str (src/src/runtime.rs) over version strings.          *)
(*                                                                         *)
(* RtBin::from_str, Display for RtVersion and the runtime cache            *)
(* (version_exists, download, installed_versions) work on file names that  *)
(* are sequences of characters; find_manifest (src/shared/src/manifest.rs) *)
(* walks a small directory tree; clean removes the build directory; and    *)
(* run (src/shared/src/run.rs) enters the terminal loop                    *)
(* (src/src/terminal.rs) after upload.                                     *)
(***************************************************************************)
EXTENDS Integers, Sequences, FiniteSets, TLC

VARIABLES
    cmd,              \* the entry point of the run: "upload", "switch_radio_channel",
                      \* "build", "table" (find_modules and the table), "parse" and
                      \* "bin" (the parsers), "find" (find_manifest), "cache" (the
                      \* runtime cache)
    impl,             \* "src" (src/src/upload.rs), "shared" (src/shared/src/upload.rs)
                      \* or "cli" (the upload(dir, after_upload) that run and the cli call)
    pc,               \* position of the main flow
    result,           \* None while running, then "Ok" or the error returned
    manifest,         \* None, or the parsed Venice.toml: [slot, venice_version]
    conn_task,        \* state of tokio::spawn(open_connection())
    bin_fetch_task,   \* state of tokio::spawn(fetch(..))
    joined,           \* the tasks whose JoinHandle the main flow has awaited
    vpt,              \* state of build(dir): "none", "running", "ok"
    channel,          \* the RadioChannel asked of switch_radio_channel
    radio_status,     \* None, or the channel code of the GetRadioStatus reply
    product_type,     \* None, or the product type of the GetSystemVersion reply
    system_flags,     \* None, or the flags of the GetSystemFlags reply
    elapsed,          \* 250 ms ticks since the 8 s timer of the silence phase started
    attempts,         \* attempts made by the reconnect handshake
    silence_seen,     \* a poll of the silence phase went unanswered
    needs_ini_upload, \* None, or the decision for slot_<n>.ini
    needs_rt_upload,  \* None, or the decision for the runtime image
    ini_data,         \* Nothing, or the slot written into the config content
    link,             \* what the connection is: "wired" or "wireless"
    brain,            \* the device's files: file -> Absent or a checksum
    inflight,         \* the requests the connection is carrying
    issued,           \* the kinds of device request issued in this run
    reported,         \* file -> Nothing, or Some(what GetFileMetadata reported)
    last_reply,       \* None, or [req, outcome] of the last request that returned
    xfers,            \* the UploadFile commands issued, in order
    cli,              \* the command line: [verb, after_upload]
    after_upload,     \* the Option<FileExitAction> handed to upload by its caller
    disk,             \* the project directory: sources, artifacts, build/out.vpt
    clock,            \* the file system's time, in timestamp ticks
    bld,              \* the run of build in progress
    prev,             \* the last successful run of build: its bytes, the table file it
                      \* left, and whether a source was saved or clean was run since
    tree,             \* the source directory: directory -> the files in it
    gen,              \* the run of find_modules and of the table generation over it
    text,             \* the string handed to a parser
    parsed,           \* Nothing, or what the parser returned
    search,           \* the run of find_manifest: the directories with a Venice.toml,
                      \* the argument, the current directory and the walk
    cache,            \* the runtime cache: a version, the files of its directory and
                      \* what version_exists, download and installed_versions returned
    term              \* the terminal pass-through loop of `run`

vars == <<cmd, impl, pc, result, manifest, conn_task, bin_fetch_task, joined, vpt,
          channel, radio_status, product_type, system_flags, elapsed, attempts,
          silence_seen, needs_ini_upload, needs_rt_upload, ini_data, link, brain,
          inflight, issued, reported, last_reply, xfers, cli, after_upload, disk, clock, bld,
          prev, tree, gen, text, parsed, search, cache, term>>

uploadVars == <<cmd, impl, pc, result, manifest, conn_task, bin_fetch_task, joined, vpt,
                channel, radio_status, product_type, system_flags, elapsed, attempts,
                silence_seen, needs_ini_upload, needs_rt_upload, ini_data, link, brain,
                inflight, issued, reported, last_reply, xfers>>
cliVars   == <<cli, after_upload, term>>
buildVars == <<disk, clock, bld, prev>>
toolVars  == <<tree, gen, text, parsed, search, cache>>
taskVars  == <<conn_task, bin_fetch_task>>
radioVars == <<channel, radio_status, product_type, system_flags, elapsed, attempts,
               silence_seen>>
devVars   == <<brain, inflight, issued, reported, last_reply, xfers>>
flowVars  == <<cmd, impl, link, manifest, joined, vpt, needs_ini_upload, needs_rt_upload>>
inputVars == <<cmd, impl>>

None   == "None"
Absent == 0

\* Option<T>: <<>> is None, <<v>> is Some(v)
Nothing == <<>>
Some(v) == <<v>>
Unwrap(o) == o[1]

Unloaded == [loaded |-> FALSE]
NoRequest == [req |-> None]
NoReply == [req |-> NoRequest, outcome |-> None]

-----------------------------------------------------------------------------
(* Bounds and program constants *)

MaxCrc == 2                      \* checksums are drawn from 1..MaxCrc
CrcValues == 1..MaxCrc

MinSlot == 1                     \* (1..=8).contains(&manifest.slot)
MaxSlot == 8
U8Max == 255                     \* Manifest.slot is a u8
SlotInputs == {MinSlot - 1, MinSlot, MaxSlot, MaxSlot + 1, U8Max}

ChannelDownloadCode == 5
ChannelPitCode == 31
ChannelSwitchedCode == 0 - 11
ChannelOtherCode == 9            \* some channel that is neither target
ChannelCodes == {ChannelDownloadCode, ChannelPitCode, ChannelSwitchedCode, ChannelOtherCode}

TetheredBit == 8                 \* system_flags.flags & (1 << 8)
FlagInputs == {0, 2 ^ TetheredBit, 2 ^ TetheredBit + 1, 2 ^ (TetheredBit + 1)}
ProductTypes == {"Brain", "Controller"}

DisconnectTimeoutMs == 8000      \* tokio::time::sleep(Duration::from_secs(8))
PollMs == 250                    \* Duration::from_millis(250)
DisconnectTicks == DisconnectTimeoutMs \div PollMs
ReconnectRetries == 32           \* packet_handshake(250 ms, 32, ..)

Files == {"ini", "rt", "vpt"}
\* checksum of the local candidate content of each file
LocalCrc(file) == 1
VersionInputs == {"0.1.0", "not-semver"}

-----------------------------------------------------------------------------
(* Errors *)

SerialErrors == {"Timeout", "Nack", "Io"}
Serial(e) == "Serial(" \o e \o ")"          \* CliError::Serial(SerialError)
SlotOutOfRange == "SlotOutOfRange"
RadioChannelDisconnectTimeout == "RadioChannelDisconnectTimeout"
RadioChannelReconnectTimeout == "RadioChannelReconnectTimeout"
NoDevice == "NoDevice"
ManifestErrors == {"NoManifest", "Io", "Manifest"}
SemverError == "Semver"
BuildErrors == {"Compiler", "Io", "NoManifest", "Manifest"}
FetchErrors == {"Network", "Io"}
Panic == "Panic"

-----------------------------------------------------------------------------
(* Pure helpers *)

\* the range check with its lower bound forgotten
SlotValid_NoLowerBound(slot) == slot <= MaxSlot

\* the slot range starting at 0
SlotValid_FromZero(slot) == slot \in 0..MaxSlot

\* upload: if !(1..=8).contains(&manifest.slot)
SlotValid(slot) == slot \in MinSlot..MaxSlot

\* upload: format!("slot_{}.ini", manifest.slot)
IniName(slot) == "slot_" \o ToString(slot) \o ".ini"

\* upload: format!("slot_{}.bin", manifest.slot)
VptName(slot) == "slot_" \o ToString(slot) \o ".bin"

\* upload: format!("{rtbin}") for RtBin::from_version(venice_version)
RtBinName(version) == "venice-v" \o version \o ".bin"

\* upload: slot: manifest.slot - 1 (u8 arithmetic)
IniSlot(slot) == (slot - 1) % (U8Max + 1)

\* manifest.venice_version.parse::<semver::Version>()
SemverOk(version) == version = "0.1.0"

\* upload: brain_file_metadata(..)?.is_none()
NeedsUpload(metadata) == metadata = Nothing

\* the early return without the "already switched" sentinel
ChannelMatches_NoSentinel(status, target) ==
    \/ (status = ChannelDownloadCode /\ target = "Download")
    \/ (status = ChannelPitCode /\ target = "Pit")

\* switch_radio_channel: the early return on the reported channel
ChannelMatches(status, target) ==
    \/ (status = ChannelDownloadCode /\ target = "Download")
    \/ (status = ChannelPitCode /\ target = "Pit")
    \/ status = ChannelSwitchedCode

\* the lowest bit read for the tethered bit
Tethered_LowBit(flags) == flags % 2 # 0

\* is_connection_wireless: system_flags.flags & (1 << 8) != 0
Tethered(flags) == (flags \div (2 ^ TetheredBit)) % 2 # 0

\* the classification with the tethered bit ignored
IsWireless_IgnoreTether(product, flags) == product = "Controller"

\* is_connection_wireless: Ok(!tethered && controller)
IsWireless(product, flags) == ~Tethered(flags) /\ product = "Controller"

-----------------------------------------------------------------------------
(* The post-upload action *)

\* enum AfterUpload: the values the command line accepts
AfterUploadValues == {"halt", "do-nothing", "show-run-screen", "run-program"}

\* a conversion that loses Halt
FileExitActionFrom_HaltLost(value) ==
    CASE value = "halt" -> "DoNothing"
      [] value = "do-nothing" -> "DoNothing"
      [] value = "show-run-screen" -> "ShowRunScreen"
      [] value = "run-program" -> "RunProgram"

\* impl From<AfterUpload> for FileExitAction
FileExitActionFrom(value) ==
    CASE value = "halt" -> "Halt"
      [] value = "do-nothing" -> "DoNothing"
      [] value = "show-run-screen" -> "ShowRunScreen"
      [] value = "run-program" -> "RunProgram"

\* Venice::Upload: upload(dir, after_upload.map(|a| a.into()))
CliUploadAction(arg) ==
    IF arg = Nothing THEN Nothing ELSE Some(FileExitActionFrom(Unwrap(arg)))

\* run: upload(dir, Some(FileExitAction::RunProgram))
RunAction == Some("RunProgram")

\* upload(dir, after_upload): the action requested with the table, ShowRunScreen
\* unless the caller names one
TableAction(action) == IF action = Nothing THEN "ShowRunScreen" ELSE Unwrap(action)

-----------------------------------------------------------------------------
(* The requests put on the connection *)

Handshake(kind, name) == [req |-> kind, name |-> name]

\* conn.execute_command(UploadFile {..})
UploadFile(file, filename, load_addr, linked_file, action) ==
    [req |-> "UploadFile", file |-> file, name |-> filename, load_addr |-> load_addr,
     linked_file |-> linked_file, after_upload |-> action]

IniUpload == UploadFile("ini", IniName(manifest.slot), "USER_PROGRAM_LOAD_ADDR",
                        None, "DoNothing")
RtUpload  == UploadFile("rt", RtBinName(manifest.venice_version),
                        "USER_PROGRAM_LOAD_ADDR", None, "ShowRunScreen")
VptUpload == UploadFile("vpt", VptName(manifest.slot), "VPT_LOAD_ADDR", None,
                        IF impl = "cli" THEN TableAction(after_upload)
                                        ELSE "ShowRunScreen")

Send(request) ==
    /\ inflight' = inflight \cup {request}
    /\ issued' = issued \cup {request.req}
    /\ UNCHANGED <<brain, reported, last_reply>>

Reply(request, outcome) ==
    /\ request \in inflight
    /\ last_reply' = [req |-> request, outcome |-> outcome]
    /\ inflight' = inflight \ {request}
    /\ UNCHANGED issued

\* `return Err(e)` / `?` of upload and of switch_radio_channel
Fail(e) == pc' = "done" /\ result' = e

\* `Ok(())` of the entry point
Succeed == pc' = "done" /\ result' = "Ok"

Goto(p) == pc' = p /\ UNCHANGED result

-----------------------------------------------------------------------------
(* Where each implementation of upload goes next *)

\* src: build(dir) follows the spawn; shared: the connection is joined first
AfterSpawnFetch == IF impl # "shared" THEN "build" ELSE "join_conn"

\* src: switch_radio_channel; shared: straight to the metadata queries
AfterJoinConn == IF impl # "shared" THEN "radio_status" ELSE "meta_ini"

\* src: the transfers; shared: the arguments of upload_inner, in order
AfterMetadata(needs_rt) ==
    IF impl # "shared" THEN "ini" ELSE IF needs_rt THEN "join_fetch" ELSE "build"

AfterBuild == IF impl # "shared" THEN "join_conn" ELSE "ini"

\* the runtime transfer without the join of its task
AfterIni_NoJoin(needs_rt) == IF needs_rt THEN "rt" ELSE "vpt"

AfterIni(needs_rt) ==
    IF needs_rt THEN (IF impl # "shared" THEN "join_fetch" ELSE "rt") ELSE "vpt"

AfterJoinFetch == IF impl # "shared" THEN "rt" ELSE "build"

-----------------------------------------------------------------------------
(* The project directory and build *)

NumModules == 2                  \* source modules find_modules discovers
MaxTime == 3                     \* timestamps the file system hands out
MaxVer == 2                      \* revisions of a source file
MaxRuns == 2                     \* successful runs of build in a row
Epoch == 0                       \* SystemTime::UNIX_EPOCH

Mods == 1..NumModules

\* a file that does not exist, and a file with its modification time and content
Missing == [exists |-> FALSE, mtime |-> Epoch, ver |-> 0]
File(t, v) == [exists |-> TRUE, mtime |-> t, ver |-> v]

\* std::fs::metadata(path).and_then(|m| m.modified()).unwrap_or(SystemTime::UNIX_EPOCH)
Modified(file) == IF file.exists THEN file.mtime ELSE Epoch

\* every module taken for stale
NeedsRebuild_Always(src_modified, build_modified) == TRUE

\* a module with equal times taken for fresh
NeedsRebuild_Strict(src_modified, build_modified) == src_modified > build_modified

\* SrcModule::needs_rebuild: src_modified >= build_modified
NeedsRebuild(src_modified, build_modified) == src_modified >= build_modified

\* module.src_path(src_dir)
SrcPath(m) == <<"src", m>>

\* Command::output(): mpy-cross could not be started, or ran and exited; a failed
\* one has written bytes of text to its error stream, one of them no valid UTF-8
Outputs ==
    {[started |-> FALSE, success |-> FALSE, stderr |-> <<>>],
     [started |-> TRUE, success |-> TRUE, stderr |-> <<>>]}
    \cup {[started |-> TRUE, success |-> FALSE, stderr |-> t] :
            t \in {<<>>, <<"SyntaxError">>, <<"SyntaxError", "0xFF">>}}

\* a non-zero exit passed over
CompilerFailed_Never(output) == FALSE

\* a failure to start taken for a failed compilation
CompilerFailed_OrNotStarted(output) == ~output.success

\* if let Ok(output) = output && !output.status.success()
CompilerFailed(output) == output.started /\ ~output.success

\* CliError::Compiler { file, stderr: String::from_utf8_lossy(&output.stderr) }:
\* an invalid byte becomes U+FFFD
CompilerError(file, stderr) ==
    [file |-> file,
     stderr |-> [i \in DOMAIN stderr |->
                   IF stderr[i] = "0xFF" THEN "U+FFFD" ELSE stderr[i]]]

\* vpt_builder.build(): the name entry, then one payload per module
TableOf(name, art) == [name |-> name, payloads |-> [m \in Mods |-> art[m].ver]]

\* build.rs: build_modules(..)? || !try_exists(&table_path); main.rs: build_modules(..)?
RebuildTable(which, rebuilt, table) ==
    rebuilt \/ (which = "build.rs" /\ table = Nothing)

\* a table left by a build of older sources
StaleTable == TableOf("prog", [m \in Mods |-> Missing])

NoPrev == [runs |-> 0, bytes |-> Nothing, table |-> Nothing, changed |-> FALSE,
           cleaned |-> FALSE]

\* the state of a run of build that has not started; `entry` and `last` are the
\* project directory and the preceding successful run as the run found them
BldIdle(which) ==
    [pc |-> "idle", which |-> which, idx |-> 1, rebuild_table |-> FALSE,
     invoked |-> {}, wrote |-> FALSE, result |-> None, bytes |-> Nothing,
     entry |-> Nothing, last |-> NoPrev,
     outputs |-> [m \in Mods |-> Nothing], err |-> Nothing]

\* the project as the runs of upload and of switch_radio_channel see it
InitNoBuild ==
    /\ disk = [src |-> [m \in Mods |-> File(1, 1)], art |-> [m \in Mods |-> Missing],
               table |-> Nothing]
    /\ clock = 1
    /\ bld = BldIdle("build.rs")
    /\ prev = NoPrev

\* a command line without an action, as src/src/main.rs has it
InitNoCli ==
    /\ cli = [verb |-> "upload", after_upload |-> Nothing]
    /\ after_upload = Nothing
    /\ term = [pc |-> "off"]

\* no source directory walked and no string parsed
InitNoTools ==
    /\ tree = <<>>
    /\ gen = [pc |-> "off"]
    /\ text = <<>>
    /\ parsed = Nothing
    /\ search = [pc |-> "off"]
    /\ cache = [pc |-> "off"]

-----------------------------------------------------------------------------
(* Initial states *)

InitCommon ==
    /\ result = None
    /\ manifest = Unloaded
    /\ conn_task = "none"
    /\ bin_fetch_task = "none"
    /\ joined = {}
    /\ vpt = "none"
    /\ radio_status = Nothing
    /\ product_type = None
    /\ system_flags = Nothing
    /\ elapsed = 0
    /\ attempts = 0
    /\ silence_seen = FALSE
    /\ needs_ini_upload = Nothing
    /\ needs_rt_upload = Nothing
    /\ ini_data = Nothing
    /\ link \in {"wired", "wireless"}
    /\ inflight = {}
    /\ issued = {}
    /\ reported = [f \in {"ini", "rt"} |-> Nothing]
    /\ last_reply = NoReply
    /\ xfers = <<>>

\* a run of `upload`
Init ==
    /\ cmd = "upload"
    /\ impl \in {"src", "shared"}
    /\ pc = "start"
    /\ channel = "Download"
    /\ brain \in [Files -> {Absent} \cup CrcValues]
    /\ InitCommon
    /\ InitNoCli
    /\ InitNoBuild
    /\ InitNoTools

-----------------------------------------------------------------------------
(* The background tasks *)

\* open_connection: serial::find_devices() is called
ConnTaskStart ==
    /\ result = None
    /\ conn_task = "spawned"
    /\ conn_task' = "running"
    /\ UNCHANGED <<cmd, impl, link, pc, result, manifest, bin_fetch_task, joined, vpt,
                   needs_ini_upload, needs_rt_upload>>
    /\ UNCHANGED radioVars /\ UNCHANGED devVars
    /\ UNCHANGED ini_data
    /\ UNCHANGED cliVars /\ UNCHANGED buildVars /\ UNCHANGED toolVars

\* open_connection: find_devices, devices.first(), connect(5 s)
ConnTaskFinish ==
    /\ result = None
    /\ conn_task = "running"
    /\ conn_task' \in {"ok", NoDevice, Serial("Io"), Serial("Timeout")}
    /\ UNCHANGED <<cmd, impl, link, pc, result, manifest, bin_fetch_task, joined, vpt,
                   needs_ini_upload, needs_rt_upload>>
    /\ UNCHANGED radioVars /\ UNCHANGED devVars
    /\ UNCHANGED ini_data
    /\ UNCHANGED cliVars /\ UNCHANGED buildVars /\ UNCHANGED toolVars

\* the spawned block starts: ProjectDirs::from(..).unwrap(), fetch(..)
FetchTaskStart ==
    /\ result = None
    /\ bin_fetch_task = "spawned"
    /\ bin_fetch_task' = "running"
    /\ UNCHANGED <<cmd, impl, link, pc, result, manifest, conn_task, joined, vpt,
                   needs_ini_upload, needs_rt_upload>>
    /\ UNCHANGED radioVars /\ UNCHANGED devVars
    /\ UNCHANGED ini_data
    /\ UNCHANGED cliVars /\ UNCHANGED buildVars /\ UNCHANGED toolVars

\* fetch returns the image or an error; the unwrap may panic
FetchTaskFinish ==
    /\ result = None
    /\ bin_fetch_task = "running"
    /\ bin_fetch_task' \in {"ok", Panic} \cup FetchErrors
    /\ UNCHANGED <<cmd, impl, link, pc, result, manifest, conn_task, joined, vpt,
                   needs_ini_upload, needs_rt_upload>>
    /\ UNCHANGED radioVars /\ UNCHANGED devVars
    /\ UNCHANGED ini_data
    /\ UNCHANGED cliVars /\ UNCHANGED buildVars /\ UNCHANGED toolVars

-----------------------------------------------------------------------------
(* upload, up to the connection *)

\* let conn_task = tokio::spawn(open_connection());
SpawnConn ==
    /\ pc = "start"
    /\ conn_task' = "spawned"
    /\ Goto("manifest")
    /\ UNCHANGED <<cmd, impl, link, manifest, bin_fetch_task, joined, vpt,
                   needs_ini_upload, needs_rt_upload>>
    /\ UNCHANGED radioVars /\ UNCHANGED devVars
    /\ UNCHANGED ini_data
    /\ UNCHANGED cliVars /\ UNCHANGED buildVars /\ UNCHANGED toolVars

\* find_manifest, read_to_string, toml::from_str::<Manifest>
LoadManifest ==
    /\ pc = "manifest"
    /\ \/ /\ manifest' \in [slot : SlotInputs, venice_version : VersionInputs]
          /\ Goto("slot_check")
       \/ /\ \E e \in ManifestErrors : Fail(e)
          /\ UNCHANGED manifest
    /\ UNCHANGED <<cmd, impl, link, joined, vpt, needs_ini_upload, needs_rt_upload>>
    /\ UNCHANGED taskVars /\ UNCHANGED radioVars /\ UNCHANGED devVars
    /\ UNCHANGED ini_data
    /\ UNCHANGED cliVars /\ UNCHANGED buildVars /\ UNCHANGED toolVars

\* if !(1..=8).contains(&manifest.slot) { return Err(SlotOutOfRange) }
CheckSlot ==
    /\ pc = "slot_check"
    /\ IF SlotValid(manifest.slot) THEN Goto("version") ELSE Fail(SlotOutOfRange)
    /\ UNCHANGED <<cmd, impl, link, manifest, joined, vpt, needs_ini_upload, needs_rt_upload>>
    /\ UNCHANGED taskVars /\ UNCHANGED radioVars /\ UNCHANGED devVars
    /\ UNCHANGED ini_data
    /\ UNCHANGED cliVars /\ UNCHANGED buildVars /\ UNCHANGED toolVars

\* manifest.venice_version.parse::<semver::Version>().into_diagnostic()?
ParseVersion ==
    /\ pc = "version"
    /\ IF SemverOk(manifest.venice_version) THEN Goto("spawn_fetch") ELSE Fail(SemverError)
    /\ UNCHANGED <<cmd, impl, link, manifest, joined, vpt, needs_ini_upload, needs_rt_upload>>
    /\ UNCHANGED taskVars /\ UNCHANGED radioVars /\ UNCHANGED devVars
    /\ UNCHANGED ini_data
    /\ UNCHANGED cliVars /\ UNCHANGED buildVars /\ UNCHANGED toolVars

\* let bin_fetch_task = tokio::spawn(async move { .. fetch(..).await });
SpawnFetch ==
    /\ pc = "spawn_fetch"
    /\ bin_fetch_task' = "spawned"
    /\ Goto(AfterSpawnFetch)
    /\ UNCHANGED <<cmd, impl, link, manifest, conn_task, joined, vpt,
                   needs_ini_upload, needs_rt_upload>>
    /\ UNCHANGED radioVars /\ UNCHANGED devVars
    /\ UNCHANGED ini_data
    /\ UNCHANGED cliVars /\ UNCHANGED buildVars /\ UNCHANGED toolVars

\* build(dir) is entered: discovery, the compiler, the table
BuildStart ==
    /\ pc = "build"
    /\ vpt' = "running"
    /\ Goto("build_wait")
    /\ UNCHANGED <<cmd, impl, link, manifest, joined, needs_ini_upload, needs_rt_upload>>
    /\ UNCHANGED taskVars /\ UNCHANGED radioVars /\ UNCHANGED devVars
    /\ UNCHANGED ini_data
    /\ UNCHANGED cliVars /\ UNCHANGED buildVars /\ UNCHANGED toolVars

\* build(dir).await? returns the table bytes or an error; src: the config content
\* (serde_ini::to_vec(&ProgramIniConfig { .. slot: manifest.slot - 1 .. })) follows
BuildFinish ==
    /\ pc = "build_wait"
    /\ \/ /\ vpt' = "ok"
          /\ Goto(AfterBuild)
          /\ ini_data' = IF impl # "shared" THEN Some(IniSlot(manifest.slot))
                                            ELSE ini_data
       \/ /\ vpt' = "failed"
          /\ \E e \in BuildErrors : Fail(e)
          /\ UNCHANGED ini_data
    /\ UNCHANGED <<cmd, impl, link, manifest, joined, needs_ini_upload, needs_rt_upload>>
    /\ UNCHANGED taskVars /\ UNCHANGED radioVars /\ UNCHANGED devVars
    /\ UNCHANGED cliVars /\ UNCHANGED buildVars /\ UNCHANGED toolVars

\* let mut conn = conn_task.await.unwrap()?;
JoinConn ==
    /\ pc = "join_conn"
    /\ conn_task \notin {"none", "spawned", "running"}
    /\ joined' = joined \cup {"conn"}
    /\ IF conn_task = "ok" THEN Goto(AfterJoinConn) ELSE Fail(conn_task)
    /\ UNCHANGED <<cmd, impl, link, manifest, vpt, needs_ini_upload, needs_rt_upload>>
    /\ UNCHANGED taskVars /\ UNCHANGED radioVars /\ UNCHANGED devVars
    /\ UNCHANGED ini_data
    /\ UNCHANGED cliVars /\ UNCHANGED buildVars /\ UNCHANGED toolVars

-----------------------------------------------------------------------------
(* The device at the other end of the connection *)

\* the flags words with the tethered bit (0x100) set
TetheredFlags == {f \in FlagInputs : f >= 256 /\ f < 512}

\* the product a device on such a link reports: a wireless link is a controller
DeviceProducts(l) == IF l = "wireless" THEN {"Controller"} ELSE ProductTypes

\* the flags it reports: a controller on a wire is tethered to its brain
DeviceFlags(l, product) ==
    IF l = "wireless" THEN FlagInputs \ TetheredFlags
    ELSE IF product = "Controller" THEN TetheredFlags
    ELSE FlagInputs

-----------------------------------------------------------------------------
(* switch_radio_channel and is_connection_wireless *)

\* the reconnect timeout reported with the error of the silence phase
ReconnectError_SameTimeout(err) ==
    IF err = "Timeout" THEN RadioChannelDisconnectTimeout ELSE Serial(err)

\* .map_err(|err| match err { SerialError::Timeout => RadioChannelReconnectTimeout,
\*                            other => CliError::Serial(other) })
ReconnectError(err) ==
    IF err = "Timeout" THEN RadioChannelReconnectTimeout ELSE Serial(err)

\* one attempt too many
RetriesLeft_OneMore(n) == n <= ReconnectRetries

\* the retry count handed to packet_handshake: 32 attempts of 250 ms
RetriesLeft(n) == n < ReconnectRetries

\* a handshake is put on the connection
SendHandshake(kind) == Send(Handshake(kind, None)) /\ UNCHANGED xfers

\* a handshake returns
ReplyHandshake(kind, outcome) ==
    Reply(Handshake(kind, None), outcome) /\ UNCHANGED <<brain, reported, xfers>>

RadioLocalsReset ==
    /\ radio_status' = Nothing
    /\ product_type' = None
    /\ system_flags' = Nothing
    /\ elapsed' = 0
    /\ attempts' = 0
    /\ silence_seen' = FALSE

\* `Ok(())` of switch_radio_channel: upload goes on with the metadata queries and
\* the locals of the call are gone
RadioReturnOk(status, flags) ==
    IF cmd = "upload"
    THEN Goto("meta_ini") /\ RadioLocalsReset
    ELSE /\ Succeed
         /\ radio_status' = status
         /\ system_flags' = flags
         /\ UNCHANGED <<product_type, elapsed, attempts, silence_seen>>

\* conn.packet_handshake::<GetRadioStatusReplyPacket>(2 s, 3, ..)
RadioStatusSend ==
    /\ pc = "radio_status"
    /\ SendHandshake("GetRadioStatus")
    /\ Goto("radio_status_wait")
    /\ UNCHANGED flowVars /\ UNCHANGED taskVars /\ UNCHANGED radioVars
    /\ UNCHANGED ini_data
    /\ UNCHANGED cliVars /\ UNCHANGED buildVars /\ UNCHANGED toolVars

\* .await?.try_into_inner()?, then the early return on the reported channel
RadioStatusReply ==
    /\ pc = "radio_status_wait"
    /\ \/ \E code \in ChannelCodes :
            /\ ReplyHandshake("GetRadioStatus", "Ack")
            /\ IF ChannelMatches(code, channel)
               THEN RadioReturnOk(Some(code), system_flags)
               ELSE /\ Goto("sys_version")
                    /\ radio_status' = Some(code)
                    /\ UNCHANGED <<product_type, system_flags, elapsed, attempts,
                                   silence_seen>>
       \/ \E e \in SerialErrors :
            /\ ReplyHandshake("GetRadioStatus", e)
            /\ Fail(Serial(e))
            /\ UNCHANGED <<radio_status, product_type, system_flags, elapsed,
                           attempts, silence_seen>>
    /\ UNCHANGED channel
    /\ UNCHANGED flowVars /\ UNCHANGED taskVars
    /\ UNCHANGED ini_data
    /\ UNCHANGED cliVars /\ UNCHANGED buildVars /\ UNCHANGED toolVars

\* is_connection_wireless: packet_handshake::<GetSystemVersionReplyPacket>(500 ms, 1, ..)
SysVersionSend ==
    /\ pc = "sys_version"
    /\ SendHandshake("GetSystemVersion")
    /\ Goto("sys_version_wait")
    /\ UNCHANGED flowVars /\ UNCHANGED taskVars /\ UNCHANGED radioVars
    /\ UNCHANGED ini_data
    /\ UNCHANGED cliVars /\ UNCHANGED buildVars /\ UNCHANGED toolVars

SysVersionReply ==
    /\ pc = "sys_version_wait"
    /\ \/ \E product \in DeviceProducts(link) :
            /\ ReplyHandshake("GetSystemVersion", "Ack")
            /\ product_type' = product
            /\ Goto("sys_flags")
       \/ \E e \in {"Timeout", "Io"} :
            /\ ReplyHandshake("GetSystemVersion", e)
            /\ Fail(Serial(e))
            /\ UNCHANGED product_type
    /\ UNCHANGED <<channel, radio_status, system_flags, elapsed, attempts, silence_seen>>
    /\ UNCHANGED flowVars /\ UNCHANGED taskVars
    /\ UNCHANGED ini_data
    /\ UNCHANGED cliVars /\ UNCHANGED buildVars /\ UNCHANGED toolVars

\* is_connection_wireless: packet_handshake::<GetSystemFlagsReplyPacket>(500 ms, 1, ..)
SysFlagsSend ==
    /\ pc = "sys_flags"
    /\ SendHandshake("GetSystemFlags")
    /\ Goto("sys_flags_wait")
    /\ UNCHANGED flowVars /\ UNCHANGED taskVars /\ UNCHANGED radioVars
    /\ UNCHANGED ini_data
    /\ UNCHANGED cliVars /\ UNCHANGED buildVars /\ UNCHANGED toolVars

\* .await?.try_into_inner()?, Ok(!tethered && controller), and the
\* `if is_connection_wireless(conn).await?` of switch_radio_channel
SysFlagsReply ==
    /\ pc = "sys_flags_wait"
    /\ \/ \E flags \in DeviceFlags(link, product_type) :
            /\ ReplyHandshake("GetSystemFlags", "Ack")
            /\ IF IsWireless(product_type, flags)
               THEN /\ Goto("select_channel")
                    /\ system_flags' = Some(flags)
                    /\ UNCHANGED <<radio_status, product_type, elapsed, attempts,
                                   silence_seen>>
               ELSE RadioReturnOk(radio_status, Some(flags))
       \/ \E e \in SerialErrors :
            /\ ReplyHandshake("GetSystemFlags", e)
            /\ Fail(Serial(e))
            /\ UNCHANGED <<radio_status, product_type, system_flags, elapsed,
                           attempts, silence_seen>>
    /\ UNCHANGED channel
    /\ UNCHANGED flowVars /\ UNCHANGED taskVars
    /\ UNCHANGED ini_data
    /\ UNCHANGED cliVars /\ UNCHANGED buildVars /\ UNCHANGED toolVars

\* conn.packet_handshake::<SelectRadioChannelReplyPacket>(2 s, 3, ..)
SelectChannelSend ==
    /\ pc = "select_channel"
    /\ SendHandshake("SelectRadioChannel")
    /\ Goto("select_channel_wait")
    /\ UNCHANGED flowVars /\ UNCHANGED taskVars /\ UNCHANGED radioVars
    /\ UNCHANGED ini_data
    /\ UNCHANGED cliVars /\ UNCHANGED buildVars /\ UNCHANGED toolVars

\* the reconnect handshake right after the request, without the wait for silence
SelectChannelReply_SkipSilence ==
    /\ pc = "select_channel_wait"
    /\ \/ /\ ReplyHandshake("SelectRadioChannel", "Ack")
          /\ Goto("reconnect")
       \/ \E e \in SerialErrors :
            /\ ReplyHandshake("SelectRadioChannel", e)
            /\ Fail(Serial(e))
    /\ elapsed' = 0
    /\ UNCHANGED <<channel, radio_status, product_type, system_flags, attempts,
                   silence_seen>>
    /\ UNCHANGED flowVars /\ UNCHANGED taskVars
    /\ UNCHANGED ini_data
    /\ UNCHANGED cliVars /\ UNCHANGED buildVars /\ UNCHANGED toolVars

\* .await?.try_into_inner()?; the select! starts its 8 s timer
SelectChannelReply ==
    /\ pc = "select_channel_wait"
    /\ \/ /\ ReplyHandshake("SelectRadioChannel", "Ack")
          /\ Goto("silence_poll")
       \/ \E e \in SerialErrors :
            /\ ReplyHandshake("SelectRadioChannel", e)
            /\ Fail(Serial(e))
    /\ elapsed' = 0
    /\ UNCHANGED <<channel, radio_status, product_type, system_flags, attempts,
                   silence_seen>>
    /\ UNCHANGED flowVars /\ UNCHANGED taskVars
    /\ UNCHANGED ini_data
    /\ UNCHANGED cliVars /\ UNCHANGED buildVars /\ UNCHANGED toolVars

\* the polling loop: packet_handshake::<GetRadioStatusReplyPacket>(250 ms, 1, ..)
SilencePollSend ==
    /\ pc = "silence_poll"
    /\ SendHandshake("SilencePoll")
    /\ Goto("silence_wait")
    /\ UNCHANGED flowVars /\ UNCHANGED taskVars /\ UNCHANGED radioVars
    /\ UNCHANGED ini_data
    /\ UNCHANGED cliVars /\ UNCHANGED buildVars /\ UNCHANGED toolVars

\* .await.is_ok(): an answered poll keeps the loop going, an unanswered one ends it
\* and the reconnect handshake follows. The handshake takes up to one tick.
SilencePollReply ==
    /\ pc = "silence_wait"
    /\ \E dt \in {0, 1} :
        /\ elapsed + dt <= DisconnectTicks
        /\ \/ \E answer \in {"Ack", "Nack"} :
                /\ ReplyHandshake("SilencePoll", answer)
                /\ Goto("silence_sleep")
                /\ elapsed' = elapsed + dt
                /\ UNCHANGED silence_seen
           \/ \E e \in {"Timeout", "Io"} :
                /\ e = "Timeout" => dt = 1
                /\ ReplyHandshake("SilencePoll", e)
                /\ Goto("reconnect")
                /\ elapsed' = 0
                /\ silence_seen' = TRUE
    /\ UNCHANGED <<channel, radio_status, product_type, system_flags, attempts>>
    /\ UNCHANGED flowVars /\ UNCHANGED taskVars
    /\ UNCHANGED ini_data
    /\ UNCHANGED cliVars /\ UNCHANGED buildVars /\ UNCHANGED toolVars

\* a polling loop on which the 8 s timer never advances
SilenceSleep_NoClock ==
    /\ pc = "silence_sleep"
    /\ elapsed < DisconnectTicks
    /\ Goto("silence_poll")
    /\ UNCHANGED <<channel, radio_status, product_type, system_flags, elapsed, attempts,
                   silence_seen>>
    /\ UNCHANGED flowVars /\ UNCHANGED taskVars /\ UNCHANGED devVars
    /\ UNCHANGED ini_data
    /\ UNCHANGED cliVars /\ UNCHANGED buildVars /\ UNCHANGED toolVars

\* tokio::time::sleep(Duration::from_millis(250)).await in the polling loop
SilenceSleep ==
    /\ pc = "silence_sleep"
    /\ elapsed < DisconnectTicks
    /\ elapsed' = elapsed + 1
    /\ Goto("silence_poll")
    /\ UNCHANGED <<channel, radio_status, product_type, system_flags, attempts,
                   silence_seen>>
    /\ UNCHANGED flowVars /\ UNCHANGED taskVars /\ UNCHANGED devVars
    /\ UNCHANGED ini_data
    /\ UNCHANGED cliVars /\ UNCHANGED buildVars /\ UNCHANGED toolVars

\* the expired timer taken for the end of the silence phase
SilenceTimeout_EnterReconnect ==
    /\ pc \in {"silence_poll", "silence_wait", "silence_sleep"}
    /\ elapsed >= DisconnectTicks
    /\ inflight' = inflight \ {Handshake("SilencePoll", None)}
    /\ Goto("reconnect")
    /\ UNCHANGED <<brain, issued, reported, last_reply, xfers>>
    /\ UNCHANGED flowVars /\ UNCHANGED taskVars /\ UNCHANGED radioVars
    /\ UNCHANGED ini_data
    /\ UNCHANGED cliVars /\ UNCHANGED buildVars /\ UNCHANGED toolVars

\* the sleep(8 s) branch of select! wins: the polling future is dropped
SilenceTimeout ==
    /\ pc \in {"silence_poll", "silence_wait", "silence_sleep"}
    /\ elapsed >= DisconnectTicks
    /\ inflight' = inflight \ {Handshake("SilencePoll", None)}
    /\ Fail(RadioChannelDisconnectTimeout)
    /\ UNCHANGED <<brain, issued, reported, last_reply, xfers>>
    /\ UNCHANGED flowVars /\ UNCHANGED taskVars /\ UNCHANGED radioVars
    /\ UNCHANGED ini_data
    /\ UNCHANGED cliVars /\ UNCHANGED buildVars /\ UNCHANGED toolVars

\* the reconnect handshake started while a poll of the silence phase is in flight
ReconnectSend_Overlapping ==
    /\ pc \in {"reconnect", "silence_wait"}
    /\ RetriesLeft(attempts)
    /\ SendHandshake("ReconnectPoll")
    /\ attempts' = attempts + 1
    /\ Goto("reconnect_wait")
    /\ UNCHANGED <<channel, radio_status, product_type, system_flags, elapsed,
                   silence_seen>>
    /\ UNCHANGED flowVars /\ UNCHANGED taskVars
    /\ UNCHANGED ini_data
    /\ UNCHANGED cliVars /\ UNCHANGED buildVars /\ UNCHANGED toolVars

\* one attempt of packet_handshake::<GetRadioStatusReplyPacket>(250 ms, 32, ..)
ReconnectSend ==
    /\ pc = "reconnect"
    /\ RetriesLeft(attempts)
    /\ SendHandshake("ReconnectPoll")
    /\ attempts' = attempts + 1
    /\ Goto("reconnect_wait")
    /\ UNCHANGED <<channel, radio_status, product_type, system_flags, elapsed,
                   silence_seen>>
    /\ UNCHANGED flowVars /\ UNCHANGED taskVars
    /\ UNCHANGED ini_data
    /\ UNCHANGED cliVars /\ UNCHANGED buildVars /\ UNCHANGED toolVars

\* the attempt is answered, times out (the next attempt follows, or the handshake
\* gives up with Timeout), or fails otherwise; then
\* .map_err(Timeout => RadioChannelReconnectTimeout, other => Serial(other))?
ReconnectReply ==
    /\ pc = "reconnect_wait"
    /\ \/ \E answer \in {"Ack", "Nack"} :
            /\ ReplyHandshake("ReconnectPoll", answer)
            /\ RadioReturnOk(radio_status, system_flags)
       \/ /\ ReplyHandshake("ReconnectPoll", "Timeout")
          /\ IF RetriesLeft(attempts)
             THEN Goto("reconnect")
             ELSE Fail(ReconnectError("Timeout"))
          /\ UNCHANGED <<radio_status, product_type, system_flags, elapsed, attempts,
                         silence_seen>>
       \/ /\ ReplyHandshake("ReconnectPoll", "Io")
          /\ Fail(ReconnectError("Io"))
          /\ UNCHANGED <<radio_status, product_type, system_flags, elapsed, attempts,
                         silence_seen>>
    /\ UNCHANGED channel
    /\ UNCHANGED flowVars /\ UNCHANGED taskVars
    /\ UNCHANGED ini_data
    /\ UNCHANGED cliVars /\ UNCHANGED buildVars /\ UNCHANGED toolVars

-----------------------------------------------------------------------------
(* upload: the metadata queries and the transfers *)

\* what the device answers to GetFileMetadata for a file it holds or lacks
DeviceMetadata(file) == IF brain[file] = Absent THEN "NackProgramFile" ELSE "Ack"

\* every NACK taken for "the file is absent"
BrainFileMetadata_AnyNackAbsent(outcome, payload) ==
    CASE outcome = "Ack" -> [err |-> None, val |-> Some(payload)]
      [] outcome \in {"NackProgramFile", "Nack"} -> [err |-> None, val |-> Nothing]
      [] OTHER -> [err |-> outcome, val |-> Nothing]

\* an unanswered query taken for "the file is absent"
BrainFileMetadata_TimeoutAbsent(outcome, payload) ==
    CASE outcome = "Ack" -> [err |-> None, val |-> Some(payload)]
      [] outcome \in {"NackProgramFile", "Timeout"} -> [err |-> None, val |-> Nothing]
      [] OTHER -> [err |-> outcome, val |-> Nothing]

\* brain_file_metadata: match reply.ack { Ack => Ok(reply.payload),
\* NackProgramFile => Ok(None), nack => Err(Nack(nack)) }
BrainFileMetadata(outcome, payload) ==
    CASE outcome = "Ack" -> [err |-> None, val |-> Some(payload)]
      [] outcome = "NackProgramFile" -> [err |-> None, val |-> Nothing]
      [] OTHER -> [err |-> outcome, val |-> Nothing]

MetaName(file) ==
    IF file = "ini" THEN IniName(manifest.slot) ELSE RtBinName(manifest.venice_version)

\* brain_file_metadata: conn.packet_handshake::<GetFileMetadataReplyPacket>(1 s, 2, ..)
MetaSend(file, at) ==
    /\ pc = at
    /\ Send(Handshake("GetFileMetadata", MetaName(file)))
    /\ Goto(at \o "_wait")
    /\ UNCHANGED xfers
    /\ UNCHANGED flowVars /\ UNCHANGED taskVars /\ UNCHANGED radioVars

MetaIniSend ==
    /\ MetaSend("ini", "meta_ini")
    /\ UNCHANGED ini_data
    /\ UNCHANGED cliVars /\ UNCHANGED buildVars /\ UNCHANGED toolVars

MetaRtSend ==
    /\ MetaSend("rt", "meta_rt")
    /\ UNCHANGED ini_data
    /\ UNCHANGED cliVars /\ UNCHANGED buildVars /\ UNCHANGED toolVars

\* let needs_ini_upload = brain_file_metadata(..).await.map_err(Serial)?.is_none();
MetaIniReply ==
    /\ pc = "meta_ini_wait"
    /\ \E outcome \in {DeviceMetadata("ini")} \cup SerialErrors :
        LET r == BrainFileMetadata(outcome, brain["ini"]) IN
        /\ Reply(Handshake("GetFileMetadata", MetaName("ini")), outcome)
        /\ IF r.err = None
           THEN /\ needs_ini_upload' = Some(NeedsUpload(r.val))
                /\ reported' = [reported EXCEPT !["ini"] = Some(brain["ini"])]
                /\ Goto("meta_rt")
           ELSE /\ Fail(Serial(r.err))
                /\ UNCHANGED <<needs_ini_upload, reported>>
    /\ UNCHANGED <<cmd, impl, link, manifest, joined, vpt, needs_rt_upload, brain, xfers>>
    /\ UNCHANGED taskVars /\ UNCHANGED radioVars
    /\ UNCHANGED ini_data
    /\ UNCHANGED cliVars /\ UNCHANGED buildVars /\ UNCHANGED toolVars

\* let needs_rt_upload = brain_file_metadata(..).await.map_err(Serial)?.is_none();
\* shared: the config (slot: manifest.slot - 1) follows
MetaRtReply ==
    /\ pc = "meta_rt_wait"
    /\ \E outcome \in {DeviceMetadata("rt")} \cup SerialErrors :
        LET r == BrainFileMetadata(outcome, brain["rt"]) IN
        /\ Reply(Handshake("GetFileMetadata", MetaName("rt")), outcome)
        /\ IF r.err = None
           THEN /\ needs_rt_upload' = Some(NeedsUpload(r.val))
                /\ reported' = [reported EXCEPT !["rt"] = Some(brain["rt"])]
                /\ ini_data' = IF impl = "shared" THEN Some(IniSlot(manifest.slot))
                                                  ELSE ini_data
                /\ Goto(AfterMetadata(NeedsUpload(r.val)))
           ELSE /\ Fail(Serial(r.err))
                /\ UNCHANGED <<needs_rt_upload, reported, ini_data>>
    /\ UNCHANGED <<cmd, impl, link, manifest, joined, vpt, needs_ini_upload, brain, xfers>>
    /\ UNCHANGED taskVars /\ UNCHANGED radioVars
    /\ UNCHANGED cliVars /\ UNCHANGED buildVars /\ UNCHANGED toolVars

\* conn.execute_command(UploadFile {..}) is started
SendUpload(request) == Send(request) /\ xfers' = Append(xfers, request)

\* a failed transfer that deletes what the run had transferred
UploadReply_Rollback(request, next) ==
    \/ /\ Reply(request, "Ack")
       /\ brain' = [brain EXCEPT ![request.file] = LocalCrc(request.file)]
       /\ next
    \/ \E e \in SerialErrors :
        /\ Reply(request, e)
        /\ brain' = [f \in Files |->
                        IF \E i \in DOMAIN xfers : xfers[i].file = f
                        THEN Absent ELSE brain[f]]
        /\ Fail(Serial(e))

\* .await.map_err(CliError::Serial)?: the transfer completed and the device holds the
\* content, or it failed and the device holds the old file or none
UploadReply(request, next) ==
    \/ /\ Reply(request, "Ack")
       /\ brain' = [brain EXCEPT ![request.file] = LocalCrc(request.file)]
       /\ next
    \/ \E e \in SerialErrors :
        /\ Reply(request, e)
        /\ brain' \in {brain, [brain EXCEPT ![request.file] = Absent]}
        /\ Fail(Serial(e))

\* the config transfer started and not awaited
IniSend_NoAwait ==
    /\ pc = "ini"
    /\ IF Unwrap(needs_ini_upload)
       THEN SendUpload(IniUpload) /\ Goto(AfterIni(Unwrap(needs_rt_upload)))
       ELSE Goto(AfterIni(Unwrap(needs_rt_upload))) /\ UNCHANGED devVars
    /\ UNCHANGED flowVars /\ UNCHANGED taskVars /\ UNCHANGED radioVars
    /\ UNCHANGED ini_data
    /\ UNCHANGED cliVars /\ UNCHANGED buildVars /\ UNCHANGED toolVars

\* if needs_ini_upload { conn.execute_command(UploadFile {..}) }
\* upload_inner: if let Some((name, config)) = config { .. }
IniSend ==
    /\ pc = "ini"
    /\ IF Unwrap(needs_ini_upload)
       THEN SendUpload(IniUpload) /\ Goto("ini_wait")
       ELSE Goto(AfterIni(Unwrap(needs_rt_upload))) /\ UNCHANGED devVars
    /\ UNCHANGED flowVars /\ UNCHANGED taskVars /\ UNCHANGED radioVars
    /\ UNCHANGED ini_data
    /\ UNCHANGED cliVars /\ UNCHANGED buildVars /\ UNCHANGED toolVars

IniReply ==
    /\ pc = "ini_wait"
    /\ UploadReply(IniUpload, Goto(AfterIni(Unwrap(needs_rt_upload))))
    /\ UNCHANGED <<reported, xfers>>
    /\ UNCHANGED flowVars /\ UNCHANGED taskVars /\ UNCHANGED radioVars
    /\ UNCHANGED ini_data
    /\ UNCHANGED cliVars /\ UNCHANGED buildVars /\ UNCHANGED toolVars

\* let bin = bin_fetch_task.await.unwrap()?;
JoinFetch ==
    /\ pc = "join_fetch"
    /\ bin_fetch_task \notin {"none", "spawned", "running"}
    /\ joined' = joined \cup {"fetch"}
    /\ IF bin_fetch_task = "ok" THEN Goto(AfterJoinFetch) ELSE Fail(bin_fetch_task)
    /\ UNCHANGED <<cmd, impl, link, manifest, vpt, needs_ini_upload, needs_rt_upload>>
    /\ UNCHANGED taskVars /\ UNCHANGED radioVars /\ UNCHANGED devVars
    /\ UNCHANGED ini_data
    /\ UNCHANGED cliVars /\ UNCHANGED buildVars /\ UNCHANGED toolVars

\* the runtime image: conn.execute_command(UploadFile {..})
RtSend ==
    /\ pc = "rt"
    /\ SendUpload(RtUpload)
    /\ Goto("rt_wait")
    /\ UNCHANGED flowVars /\ UNCHANGED taskVars /\ UNCHANGED radioVars
    /\ UNCHANGED ini_data
    /\ UNCHANGED cliVars /\ UNCHANGED buildVars /\ UNCHANGED toolVars

RtReply ==
    /\ pc = "rt_wait"
    /\ UploadReply(RtUpload, Goto("vpt"))
    /\ UNCHANGED <<reported, xfers>>
    /\ UNCHANGED flowVars /\ UNCHANGED taskVars /\ UNCHANGED radioVars
    /\ UNCHANGED ini_data
    /\ UNCHANGED cliVars /\ UNCHANGED buildVars /\ UNCHANGED toolVars

\* the checksum skip applied to the program table too
VptSend_SkipIfHeld ==
    /\ pc = "vpt"
    /\ IF brain["vpt"] = LocalCrc("vpt")
       THEN Succeed /\ UNCHANGED devVars
       ELSE SendUpload(VptUpload) /\ Goto("vpt_wait")
    /\ UNCHANGED flowVars /\ UNCHANGED taskVars /\ UNCHANGED radioVars
    /\ UNCHANGED ini_data
    /\ UNCHANGED cliVars /\ UNCHANGED buildVars /\ UNCHANGED toolVars

\* the program table: conn.execute_command(UploadFile {..})
VptSend ==
    /\ pc = "vpt"
    /\ SendUpload(VptUpload)
    /\ Goto("vpt_wait")
    /\ UNCHANGED flowVars /\ UNCHANGED taskVars /\ UNCHANGED radioVars
    /\ UNCHANGED ini_data
    /\ UNCHANGED cliVars /\ UNCHANGED buildVars /\ UNCHANGED toolVars

\* .await.map_err(CliError::Serial)?; Ok(())
VptReply ==
    /\ pc = "vpt_wait"
    /\ UploadReply(VptUpload, Succeed)
    /\ UNCHANGED <<reported, xfers>>
    /\ UNCHANGED flowVars /\ UNCHANGED taskVars /\ UNCHANGED radioVars
    /\ UNCHANGED ini_data
    /\ UNCHANGED cliVars /\ UNCHANGED buildVars /\ UNCHANGED toolVars

-----------------------------------------------------------------------------
(* Specifications *)

Tasks == ConnTaskStart \/ ConnTaskFinish \/ FetchTaskStart \/ FetchTaskFinish

Radio ==
    \/ RadioStatusSend \/ RadioStatusReply
    \/ SysVersionSend \/ SysVersionReply
    \/ SysFlagsSend \/ SysFlagsReply
    \/ SelectChannelSend \/ SelectChannelReply
    \/ SilencePollSend \/ SilencePollReply \/ SilenceSleep \/ SilenceTimeout
    \/ ReconnectSend \/ ReconnectReply

Next ==
    \/ SpawnConn \/ LoadManifest \/ CheckSlot \/ ParseVersion \/ SpawnFetch
    \/ BuildStart \/ BuildFinish \/ JoinConn
    \/ Tasks
    \/ Radio
    \/ MetaIniSend \/ MetaIniReply \/ MetaRtSend \/ MetaRtReply
    \/ IniSend \/ IniReply \/ JoinFetch \/ RtSend \/ RtReply \/ VptSend \/ VptReply

Spec == Init /\ [][Next]_vars

\* a call of switch_radio_channel on an open connection, for either target
InitRadio ==
    /\ cmd = "switch_radio_channel"
    /\ impl = "src"
    /\ pc = "radio_status"
    /\ channel \in {"Download", "Pit"}
    /\ brain = [f \in Files |-> Absent]
    /\ InitCommon
    /\ InitNoCli
    /\ InitNoBuild
    /\ InitNoTools

SpecRadio == InitRadio /\ [][Radio]_vars

\* every await of switch_radio_channel returns (each handshake and each sleep is
\* bounded by its timeout) and the scheduler resumes the function
SpecRadioLive == InitRadio /\ [][Radio]_vars /\ WF_vars(Radio)

-----------------------------------------------------------------------------
(* The command line in front of upload *)

\* main: match cmd { Venice::Upload { dir, after_upload } => upload(dir, ..),
\*                   Venice::Run { dir } => run(dir) }
CliDispatch ==
    /\ pc = "main"
    /\ after_upload' = IF cli.verb = "run" THEN RunAction
                                           ELSE CliUploadAction(cli.after_upload)
    /\ Goto("start")
    /\ UNCHANGED <<cli, term>>
    /\ UNCHANGED flowVars /\ UNCHANGED taskVars /\ UNCHANGED radioVars
    /\ UNCHANGED ini_data
    /\ UNCHANGED devVars /\ UNCHANGED buildVars /\ UNCHANGED toolVars

\* run: let mut conn = upload(dir, Some(RunProgram)).await?; terminal(&mut conn)
\* is entered with the connection upload returned, or run returns upload's error
RunTerminal ==
    /\ impl = "cli"
    /\ cli.verb = "run"
    /\ pc = "done"
    /\ term.pc = "off"
    /\ term' = IF result = "Ok"
               THEN [pc |-> "loop", entered |-> TRUE, conn |-> "upload",
                     result |-> None,
                     last |-> [branch |-> None, read |-> None, write |-> None]]
               ELSE [pc |-> "returned", entered |-> FALSE, conn |-> None,
                     result |-> result,
                     last |-> [branch |-> None, read |-> None, write |-> None]]
    /\ UNCHANGED <<cli, after_upload>>
    /\ UNCHANGED uploadVars /\ UNCHANGED buildVars /\ UNCHANGED toolVars

\* a loop that takes the end of standard input for its own end
TerminalTurn_EofEnds ==
    /\ term.pc = "loop"
    /\ \E branch \in {"stdin", "device"}, read \in {"Ok(0)", "Ok(n)", "Err"} :
         IF read = "Err"
         THEN term' = [term EXCEPT !.last = [branch |-> branch, read |-> read,
                                             write |-> None]]
         ELSE IF read = "Ok(0)" /\ branch = "stdin"
         THEN term' = [term EXCEPT !.pc = "returned", !.result = "Ok",
                                   !.last = [branch |-> branch, read |-> read,
                                             write |-> None]]
         ELSE \E write \in {"Ok"} \cup (IF branch = "stdin" THEN SerialErrors
                                                            ELSE {"Io"}) :
                LET turn == [term EXCEPT !.last = [branch |-> branch, read |-> read,
                                                   write |-> write]] IN
                term' = IF write = "Ok" THEN turn
                        ELSE [turn EXCEPT !.pc = "returned",
                                          !.result = IF branch = "stdin"
                                                     THEN Serial(write) ELSE "Io"]
    /\ UNCHANGED <<cli, after_upload>>
    /\ UNCHANGED uploadVars /\ UNCHANGED buildVars /\ UNCHANGED toolVars

\* terminal: one turn of the loop. select! takes the read that completes, from
\* standard input or from the device; with Ok(size) the bytes are written to the
\* other side (conn.write_user(..).await?, stdout.write_all(..).await?), with Err
\* nothing is done; then sleep(10 ms) and the next turn
TerminalTurn ==
    /\ term.pc = "loop"
    /\ \E branch \in {"stdin", "device"}, read \in {"Ok(0)", "Ok(n)", "Err"} :
         IF read = "Err"
         THEN term' = [term EXCEPT !.last = [branch |-> branch, read |-> read,
                                             write |-> None]]
         ELSE \E write \in {"Ok"} \cup (IF branch = "stdin" THEN SerialErrors
                                                            ELSE {"Io"}) :
                LET turn == [term EXCEPT !.last = [branch |-> branch, read |-> read,
                                                   write |-> write]] IN
                term' = IF write = "Ok" THEN turn
                        ELSE [turn EXCEPT !.pc = "returned",
                                          !.result = IF branch = "stdin"
                                                     THEN Serial(write) ELSE "Io"]
    /\ UNCHANGED <<cli, after_upload>>
    /\ UNCHANGED uploadVars /\ UNCHANGED buildVars /\ UNCHANGED toolVars

\* `venice upload [AFTER_UPLOAD]` and `venice run`
InitCli ==
    /\ cmd = "upload"
    /\ impl = "cli"
    /\ pc = "main"
    /\ channel = "Download"
    /\ brain = [f \in Files |-> Absent]
    /\ cli \in [verb : {"upload"}, after_upload : {Nothing} \cup {Some(a) : a \in AfterUploadValues}]
                \cup {[verb |-> "run", after_upload |-> Nothing]}
    /\ after_upload = Nothing
    /\ term = [pc |-> "off"]
    /\ InitCommon
    /\ InitNoBuild
    /\ InitNoTools

NextCli == CliDispatch \/ Next \/ RunTerminal \/ TerminalTurn

SpecCli == InitCli /\ [][NextCli]_vars

-----------------------------------------------------------------------------
(* build *)

\* build returns: Ok(table) or the error
Finish(res, bytes, wrote, table) ==
    /\ bld' = [bld EXCEPT !.pc = "done", !.result = res, !.bytes = bytes,
                          !.wrote = wrote]
    /\ prev' = IF res # "Ok" THEN prev
               ELSE [runs |-> prev.runs + 1, bytes |-> bytes, table |-> Some(table),
                     changed |-> FALSE, cleaned |-> FALSE]

\* find_manifest, parse_manifest, find_modules, create_dir(build_dir)
BuildEnter ==
    /\ bld.pc = "idle"
    /\ \/ /\ bld' = [bld EXCEPT !.pc = "modules", !.entry = Some(disk), !.last = prev]
          /\ UNCHANGED prev
       \/ \E e \in {"NoManifest", "Manifest", "Io"} :
            Finish(e, Nothing, FALSE, disk.table)
    /\ UNCHANGED <<disk, clock>>
    /\ UNCHANGED uploadVars /\ UNCHANGED cliVars /\ UNCHANGED toolVars

\* build_modules: one turn of `for module in modules.iter()`
BuildModule ==
    /\ bld.pc = "modules"
    /\ bld.idx <= NumModules
    /\ LET m == bld.idx IN
       IF \/ ~disk.src[m].exists
          \/ ~NeedsRebuild(Modified(disk.src[m]), Modified(disk.art[m]))
       THEN \* no such module in `modules`, or continue
            /\ bld' = [bld EXCEPT !.idx = m + 1]
            /\ UNCHANGED disk
       ELSE \* create_dir_all(..).map_err(CliError::Io)?
            \/ /\ bld' = [bld EXCEPT !.rebuild_table = TRUE, !.pc = "done",
                                      !.result = "Io"]
               /\ UNCHANGED disk
            \* Command::new("mpy-cross")...output(): a compiler that ran and
            \* succeeded has written the artifact
            \/ \E output \in Outputs :
                 LET ran == [bld EXCEPT !.rebuild_table = TRUE,
                                        !.invoked = @ \cup {m},
                                        !.outputs[m] = Some(output)] IN
                 /\ disk' = IF output.started /\ output.success
                            THEN [disk EXCEPT
                                    !.art[m] = File(clock, disk.src[m].ver)]
                            ELSE disk
                 /\ bld' = IF CompilerFailed(output)
                           THEN \* return Err(CliError::Compiler {..})
                                [ran EXCEPT !.pc = "done", !.result = "Compiler",
                                            !.err = Some(CompilerError(
                                                       SrcPath(m), output.stderr))]
                           ELSE [ran EXCEPT !.idx = m + 1]
    /\ UNCHANGED <<clock, prev>>
    /\ UNCHANGED uploadVars /\ UNCHANGED cliVars /\ UNCHANGED toolVars

\* build, after build_modules returned Ok(rebuild_table): the table is regenerated
\* and written, or read back (build.rs), or left alone (main.rs)
BuildTable ==
    /\ bld.pc = "modules"
    /\ bld.idx > NumModules
    /\ IF RebuildTable(bld.which, bld.rebuild_table, disk.table)
       THEN IF \E m \in Mods : disk.src[m].exists /\ ~disk.art[m].exists
            THEN \* std::fs::read(&build_path).map_err(CliError::Io)?
                 /\ Finish("Io", Nothing, FALSE, disk.table)
                 /\ UNCHANGED disk
            ELSE LET bytes == TableOf("prog", [m \in Mods |->
                                  IF disk.src[m].exists THEN disk.art[m] ELSE Missing]) IN
                 \/ /\ disk' = [disk EXCEPT !.table = Some(bytes)]
                    /\ Finish("Ok", IF bld.which = "build.rs" THEN Some(bytes)
                                                             ELSE Nothing,
                              TRUE, Some(bytes))
                 \/ /\ Finish("Io", Nothing, FALSE, disk.table)
                    /\ UNCHANGED disk
       ELSE /\ \/ Finish("Ok", IF bld.which = "build.rs" THEN disk.table ELSE Nothing,
                          FALSE, disk.table)
               \/ bld.which = "build.rs" /\ Finish("Io", Nothing, FALSE, disk.table)
            /\ UNCHANGED disk
    /\ UNCHANGED clock
    /\ UNCHANGED uploadVars /\ UNCHANGED cliVars /\ UNCHANGED toolVars

\* build is run again: after a failure until it has succeeded once, and after a success
BuildAgain ==
    /\ bld.pc = "done"
    /\ prev.runs < MaxRuns
    /\ bld.result = "Ok" \/ prev.runs = 0
    /\ bld' = BldIdle(bld.which)
    /\ UNCHANGED <<disk, clock, prev>>
    /\ UNCHANGED uploadVars /\ UNCHANGED cliVars /\ UNCHANGED toolVars

\* the file system's time moves on by one timestamp
Tick ==
    /\ clock < MaxTime
    /\ clock' = clock + 1
    /\ UNCHANGED <<disk, bld, prev>>
    /\ UNCHANGED uploadVars /\ UNCHANGED cliVars /\ UNCHANGED toolVars

\* the user saves a new revision of a source file between two runs
EditSource(m) ==
    /\ bld.pc = "idle"
    /\ disk.src[m].exists
    /\ disk.src[m].ver < MaxVer
    /\ disk' = [disk EXCEPT !.src[m] = File(clock, @.ver + 1)]
    /\ prev' = [prev EXCEPT !.changed = (prev.runs > 0)]
    /\ UNCHANGED <<clock, bld>>
    /\ UNCHANGED uploadVars /\ UNCHANGED cliVars /\ UNCHANGED toolVars

\* `venice build` in a project directory, by either build function
InitBuild ==
    /\ cmd = "build"
    /\ impl = "src"
    /\ pc = "start"
    /\ channel = "Download"
    /\ brain = [f \in Files |-> Absent]
    /\ InitCommon
    /\ InitNoCli
    /\ InitNoTools
    /\ disk \in [src : [Mods -> {File(t, 1) : t \in 1..2}],
                  art : [Mods -> {Missing, File(1, 0), File(2, 1)}],
                  table : {Nothing, Some(StaleTable)}]
    /\ clock = 2
    /\ bld \in {BldIdle("build.rs"), BldIdle("main.rs")}
    /\ prev = NoPrev

\* clean: std::fs::remove_dir_all(manifest_dir.join("build")), between two runs of
\* build; the artifacts and the table file go with the directory
Clean ==
    /\ bld.pc = "idle"
    /\ \/ /\ disk' = [disk EXCEPT !.art = [m \in Mods |-> Missing], !.table = Nothing]
          /\ prev' = [prev EXCEPT !.cleaned = TRUE]
       \/ \* .map_err(CliError::Io)?
          UNCHANGED <<disk, prev>>
    /\ UNCHANGED <<clock, bld>>
    /\ UNCHANGED uploadVars /\ UNCHANGED cliVars /\ UNCHANGED toolVars

NextBuild ==
    \/ BuildEnter \/ BuildModule \/ BuildTable \/ BuildAgain
    \/ Tick
    \/ \E m \in Mods : EditSource(m)

SpecBuild == InitBuild /\ [][NextBuild]_vars

\* `venice build` and `venice clean` in a project directory with its modules, or with
\* no module under src/
InitClean ==
    /\ cmd = "build"
    /\ impl = "src"
    /\ pc = "start"
    /\ channel = "Download"
    /\ brain = [f \in Files |-> Absent]
    /\ InitCommon
    /\ InitNoCli
    /\ InitNoTools
    /\ disk \in [src : [Mods -> {File(1, 1)}] \cup {[m \in Mods |-> Missing]},
                  art : [Mods -> {Missing, File(2, 1)}],
                  table : {Nothing, Some(StaleTable)}]
    /\ clock = 2
    /\ bld \in {BldIdle("build.rs"), BldIdle("main.rs")}
    /\ prev = NoPrev

NextClean ==
    \/ BuildEnter \/ BuildModule \/ BuildTable \/ BuildAgain
    \/ Tick
    \/ Clean

SpecClean == InitClean /\ [][NextClean]_vars

-----------------------------------------------------------------------------
(* find_modules, the module names and the program table *)

\* strings are sequences of characters, paths sequences of components
PACKAGE_INIT_NAME == <<"_", "_", "i", "n", "i", "t", "_", "_">>
SRC_EXT == <<"p", "y">>

\* slice::ends_with
EndsWith(s, suffix) ==
    /\ Len(s) >= Len(suffix)
    /\ SubSeq(s, Len(s) - Len(suffix) + 1, Len(s)) = suffix

\* Path::file_stem and Path::extension of a file name: split at the last '.', unless
\* there is none or the only one is the first character
SplitExt(name) ==
    LET dots == {i \in DOMAIN name : name[i] = "."}
        last == CHOOSE i \in dots : \A j \in dots : j <= i IN
    IF dots = {} \/ last = 1
    THEN [stem |-> name, ext |-> Nothing]
    ELSE [stem |-> SubSeq(name, 1, last - 1),
          ext |-> Some(SubSeq(name, last + 1, Len(name)))]

\* SrcModule::from_path: the path below src_dir, its file name replaced by its stem,
\* as an OsString: the components with MAIN_SEPARATOR between them
FromPath(path) ==
    LET RECURSIVE Join(_)
        Join(p) == IF Len(p) = 1 THEN p[1] ELSE p[1] \o <<"/">> \o Join(Tail(p)) IN
    Join([path EXCEPT ![Len(path)] = SplitExt(@).stem])

\* SrcModule::python_name
PythonName(name, package_name) ==
    LET name_bytes == IF EndsWith(name, PACKAGE_INIT_NAME)
                      THEN SubSeq(name, 1, Len(name) - Len(PACKAGE_INIT_NAME))
                      ELSE name
        python_name == package_name \o <<".">> \o name_bytes
        dotted == [i \in DOMAIN python_name |->
                     IF python_name[i] = "/" THEN "." ELSE python_name[i]] IN
    IF EndsWith(dotted, <<".">>) THEN SubSeq(dotted, 1, Len(dotted) - 1) ELSE dotted

\* SrcModule::module_flags: 0b01 | (0b10 when the name ends with __init__)
ModuleFlags(name) == IF EndsWith(name, PACKAGE_INIT_NAME) THEN 3 ELSE 1

\* the project directories find_modules is run on: src/, src/sub/ and src/sub/deep/
\* with some of __init__.py, mod.py, x__init__.py and notes.txt in them
SourceTrees ==
    LET py(stem) == stem \o <<".">> \o SRC_EXT
        init == py(PACKAGE_INIT_NAME)
        mod == py(<<"m", "o", "d">>)
        xinit == py(<<"x">> \o PACKAGE_INIT_NAME)
        notes == <<"n", "o", "t", "e", "s", ".", "t", "x", "t">>
        sub == <<"s", "u", "b">>
        deep == <<"d", "e", "e", "p">> IN
    {[d \in {<<>>, <<sub>>, <<sub, deep>>} |->
         IF d = <<>> THEN top ELSE IF d = <<sub>> THEN mid ELSE low] :
       top \in SUBSET {init, xinit, notes},
       mid \in SUBSET {init, mod},
       low \in SUBSET {init, mod}}

\* every directory taken for a package
IsPackage_Any(dir) == TRUE

\* std::fs::exists(dir.join("__init__.py"))
IsPackage(dir) == (PACKAGE_INIT_NAME \o <<".">> \o SRC_EXT) \in tree[dir]

\* find_modules_inner: the module lists it can push for a directory, one for every
\* order in which read_dir can hand out the entries
RECURSIVE Walks(_)
Walks(dir) ==
    IF ~IsPackage(dir) THEN {<<>>}
    ELSE LET below == {c \in DOMAIN tree : /\ Len(c) = Len(dir) + 1
                                          /\ SubSeq(c, 1, Len(dir)) = dir}
             \* read_dir(dir): the files of the directory and its sub-directories
             entries == {[name |-> x, is_dir |-> FALSE] : x \in tree[dir]}
                        \cup {[name |-> c[Len(c)], is_dir |-> TRUE] : c \in below}
             n == Cardinality(entries)
             Pushed(e, sub) ==
                 IF e.is_dir THEN sub[dir \o <<e.name>>]
                 ELSE IF SplitExt(e.name).ext = Some(SRC_EXT)
                 THEN <<FromPath(dir \o <<e.name>>)>>
                 ELSE <<>>
             RECURSIVE Cat(_, _, _)
             Cat(order, sub, i) ==
                 IF i > n THEN <<>>
                 ELSE Pushed(order[i], sub) \o Cat(order, sub, i + 1) IN
         {Cat(order, sub, 1) :
            order \in {f \in [1..n -> entries] :
                         \A i, j \in 1..n : f[i] = f[j] => i = j},
            sub \in {g \in [below -> UNION {Walks(c) : c \in below}] :
                       \A c \in below : g[c] \in Walks(c)}}

\* a run of find_modules and of the table generation that has not started; `first`
\* is the table of the run before it
GenIdle(package_name, first) ==
    [pc |-> "idle", package_name |-> package_name, modules |-> <<>>,
     programs |-> <<>>, result |-> None, table |-> Nothing, first |-> first]

\* find_modules(&src_dir)
FindModules ==
    /\ cmd = "table"
    /\ gen.pc = "idle"
    /\ \/ \E modules \in Walks(<<>>) :
            gen' = [gen EXCEPT !.pc = "found", !.modules = modules]
       \/ gen' = [gen EXCEPT !.pc = "done", !.result = "Io"]
    /\ UNCHANGED <<tree, text, parsed, search, cache>>
    /\ UNCHANGED uploadVars /\ UNCHANGED cliVars /\ UNCHANGED buildVars

VENICE_PACKAGE_NAME_PROGRAM ==
    <<"_", "_", "v", "e", "n", "i", "c", "e", "_", "_", "p", "a", "c", "k", "a",
    "g", "e", "_", "n", "a", "m", "e", "_", "_">>

\* the bytes of the artifact at module.build_path(build_dir), as mpy-cross left them
Mpy(name) == <<"M">> \o name

\* the table without its name entry
Programs_NoNameEntry(package_name, modules) ==
    [i \in 1..Len(modules) |->
       [name |-> PythonName(modules[i], package_name),
        payload |-> <<"0x01">> \o Mpy(modules[i])]]

\* build: the programs handed to vpt_builder.add_program, in order; a flag byte is
\* written 0x00 .. 0x03
Programs(package_name, modules) ==
    LET Byte(n) == <<"0x00", "0x01", "0x02", "0x03">>[n + 1] IN
    <<[name |-> VENICE_PACKAGE_NAME_PROGRAM,
       payload |-> <<Byte(0)>> \o package_name]>>
    \o [i \in 1..Len(modules) |->
          [name |-> PythonName(modules[i], package_name),
           payload |-> <<Byte(ModuleFlags(modules[i]))>> \o Mpy(modules[i])]]

\* the sizes of the table's header and of one pointer record, in bytes
HeaderSize == 16
PointerSize == 8

\* VptBuilder::build: header, pointer records, name pool, bytecode pool
VptBuild(programs) ==
    LET RECURSIVE Pool(_, _)
        Pool(i, field) ==
            IF i > Len(programs) THEN <<>>
            ELSE (IF field = "name" THEN programs[i].name ELSE programs[i].payload)
                 \o Pool(i + 1, field)
        name_pool_offset == HeaderSize + Len(programs) * PointerSize IN
    [header |-> [magic |-> "VPT",
                 name_pool_offset |-> name_pool_offset,
                 bytecode_pool_offset |-> name_pool_offset + Len(Pool(1, "name")),
                 entry_count |-> Len(programs)],
     pointers |-> [i \in 1..Len(programs) |->
                     [name_len |-> Len(programs[i].name),
                      bytecode_len |-> Len(programs[i].payload)]],
     names |-> Pool(1, "name"),
     bytecode |-> Pool(1, "payload")]

\* build, with the modules found: the programs are added and the table is built
\* and written, unless an artifact cannot be read or the table cannot be written
GenTable ==
    /\ gen.pc = "found"
    /\ \/ LET programs == Programs(gen.package_name, gen.modules) IN
          gen' = [gen EXCEPT !.pc = "done", !.result = "Ok", !.programs = programs,
                             !.table = Some(VptBuild(programs))]
       \/ gen' = [gen EXCEPT !.pc = "done", !.result = "Io"]
    /\ UNCHANGED <<tree, text, parsed, search, cache>>
    /\ UNCHANGED uploadVars /\ UNCHANGED cliVars /\ UNCHANGED buildVars

\* the table is generated a second time over the same source directory
GenAgain ==
    /\ gen.pc = "done"
    /\ gen.result = "Ok"
    /\ gen.first = Nothing
    /\ gen' = GenIdle(gen.package_name, gen.table)
    /\ UNCHANGED <<tree, text, parsed, search, cache>>
    /\ UNCHANGED uploadVars /\ UNCHANGED cliVars /\ UNCHANGED buildVars

-----------------------------------------------------------------------------
(* RtVersion::from_str *)

\* a u32 is kept as two 16-bit halves: the value is hi * Half + lo
Half == 65536

U32(n) == [hi |-> n \div Half, lo |-> n % Half]

\* a '+' taken for a digit
StripSign_Never(src) == src

\* <u32 as FromStr>::from_str: a leading '+' is no digit and is skipped
StripSign(src) == IF src # <<>> /\ src[1] = "+" THEN Tail(src) ELSE src

\* <u32 as FromStr>::from_str: an optional '+', then decimal digits, read left to
\* right with checked_mul(10) and checked_add(digit)
ParseU32(src) ==
    LET digits == StripSign(src)
        DigitOf == "0" :> 0 @@ "1" :> 1 @@ "2" :> 2 @@ "3" :> 3 @@ "4" :> 4
                   @@ "5" :> 5 @@ "6" :> 6 @@ "7" :> 7 @@ "8" :> 8 @@ "9" :> 9
        RECURSIVE Fold(_, _)
        Fold(i, acc) ==
            IF i > Len(digits) THEN [err |-> None, val |-> acc]
            ELSE IF digits[i] \notin DOMAIN DigitOf
            THEN [err |-> "InvalidDigit", val |-> U32(0)]
            ELSE LET lo == acc.lo * 10 + DigitOf[digits[i]]
                     hi == acc.hi * 10 + lo \div Half IN
                 IF hi >= Half THEN [err |-> "PosOverflow", val |-> U32(0)]
                 ELSE Fold(i + 1, [hi |-> hi, lo |-> lo % Half]) IN
    IF src = <<>> THEN [err |-> "Empty", val |-> U32(0)]
    ELSE IF digits = <<>> THEN [err |-> "InvalidDigit", val |-> U32(0)]
    ELSE Fold(1, U32(0))

\* str::split('.'): the pieces between the dots, one more than there are dots
RECURSIVE Split(_)
Split(s) ==
    LET dots == {i \in DOMAIN s : s[i] = "."}
        first == CHOOSE i \in dots : \A j \in dots : i <= j IN
    IF dots = {} THEN <<s>>
    ELSE <<SubSeq(s, 1, first - 1)>> \o Split(SubSeq(s, first + 1, Len(s)))

\* RtVersion::from_str: Ok(RtVersion { major, minor, patch }) has err = None
FromStr(s) ==
    LET Err(e) == [err |-> e, major |-> U32(0), minor |-> U32(0), patch |-> U32(0)]
        split == Split(Tail(s))
        Number(i) == IF i > Len(split) THEN [err |-> "TooShort", val |-> U32(0)]
                     ELSE LET n == ParseU32(split[i]) IN
                          IF n.err = None THEN n
                          ELSE [n EXCEPT !.err = "InvalidNumber(" \o @ \o ")"]
        major == Number(1)
        minor == Number(2)
        patch == Number(3) IN
    IF s = <<>> THEN Err("TooShort")
    ELSE IF s[1] # "v" THEN Err("Malformed")
    ELSE IF major.err # None THEN Err(major.err)
    ELSE IF minor.err # None THEN Err(minor.err)
    ELSE IF patch.err # None THEN Err(patch.err)
    ELSE IF Len(split) > 3 THEN Err("TooLong")
    ELSE [err |-> None, major |-> major.val, minor |-> minor.val,
          patch |-> patch.val]

\* the strings handed to the parser: nothing, 'v' or another character, then up to
\* MaxComponents pieces with dots between them
MaxComponents == 4

VersionTexts ==
    LET pieces == {<<>>, <<"1">>, <<"0", "2">>, <<"1", "a">>, <<"+", "3">>,
                   <<"4", "2", "9", "4", "9", "6", "7", "2", "9", "5">>,
                   <<"4", "2", "9", "4", "9", "6", "7", "2", "9", "6">>}
        RECURSIVE Dotted(_, _)
        Dotted(c, i) == IF i > Len(c) THEN <<>>
                        ELSE (IF i = 1 THEN <<>> ELSE <<".">>) \o c[i]
                             \o Dotted(c, i + 1) IN
    {first \o Dotted(c, 1) :
       first \in {<<>>, <<"v">>, <<"1">>},
       c \in UNION {[1..n -> pieces] : n \in 0..MaxComponents}}

\* version_str.parse::<RtVersion>(), of a string handed in or of a formatted version
RtVersionParse ==
    /\ cmd = "parse" \/ (cmd = "cache" /\ cache.pc = "displayed")
    /\ parsed = Nothing
    /\ parsed' = Some(FromStr(text))
    /\ UNCHANGED <<tree, gen, text, search, cache>>
    /\ UNCHANGED uploadVars /\ UNCHANGED cliVars /\ UNCHANGED buildVars

\* the extension looked at before the prefix
RtBinFromStr_ExtFirst(s) ==
    LET PREFIX == <<"v", "e", "n", "i", "c", "e", "-">>
        EXT == <<".", "b", "i", "n">>
        NoVersion == [major |-> U32(0), minor |-> U32(0), patch |-> U32(0)]
        version == FromStr(SubSeq(s, Len(PREFIX) + 1, Len(s) - Len(EXT))) IN
    IF ~EndsWith(s, EXT) THEN [err |-> "BadExtension", version |-> NoVersion]
    ELSE IF ~(Len(s) >= Len(PREFIX) /\ SubSeq(s, 1, Len(PREFIX)) = PREFIX)
    THEN [err |-> "BadPrefix", version |-> NoVersion]
    ELSE IF version.err # None
    THEN [err |-> "VersionError(" \o version.err \o ")", version |-> NoVersion]
    ELSE [err |-> None,
          version |-> [major |-> version.major, minor |-> version.minor,
                       patch |-> version.patch]]

\* RtBin::from_str: Ok(RtBin { version }) has err = None
RtBinFromStr(s) ==
    LET PREFIX == <<"v", "e", "n", "i", "c", "e", "-">>
        EXT == <<".", "b", "i", "n">>
        NoVersion == [major |-> U32(0), minor |-> U32(0), patch |-> U32(0)]
        version == FromStr(SubSeq(s, Len(PREFIX) + 1, Len(s) - Len(EXT))) IN
    IF ~(Len(s) >= Len(PREFIX) /\ SubSeq(s, 1, Len(PREFIX)) = PREFIX)
    THEN [err |-> "BadPrefix", version |-> NoVersion]
    ELSE IF ~EndsWith(s, EXT) THEN [err |-> "BadExtension", version |-> NoVersion]
    ELSE IF version.err # None
    THEN [err |-> "VersionError(" \o version.err \o ")", version |-> NoVersion]
    ELSE [err |-> None,
          version |-> [major |-> version.major, minor |-> version.minor,
                       patch |-> version.patch]]

\* name.parse::<RtBin>(), of a name handed in or of the name of a cached version
RtBinParse ==
    /\ cmd = "bin" \/ (cmd = "cache" /\ cache.pc = "named")
    /\ parsed = Nothing
    /\ parsed' = Some(RtBinFromStr(text))
    /\ UNCHANGED <<tree, gen, text, search, cache>>
    /\ UNCHANGED uploadVars /\ UNCHANGED cliVars /\ UNCHANGED buildVars

-----------------------------------------------------------------------------
(* The runtime cache: Display for RtVersion, version_exists, download and *)
(* installed_versions *)

\* a version written without its 'v'
Display_NoPrefix(version) ==
    LET RECURSIVE Decimal(_)
        Decimal(n) ==
            LET t == (n.hi % 10) * Half + n.lo
                digit == <<"0", "1", "2", "3", "4", "5", "6", "7", "8", "9">>[(t % 10) + 1]
                rest == [hi |-> n.hi \div 10, lo |-> t \div 10] IN
            IF rest = U32(0) THEN <<digit>> ELSE Append(Decimal(rest), digit) IN
    Decimal(version.major) \o <<".">> \o Decimal(version.minor)
        \o <<".">> \o Decimal(version.patch)

\* impl Display for RtVersion: write!(f, "v{}.{}.{}", major, minor, patch), each
\* number in decimal without sign or leading zeros (division by ten over the halves)
Display(version) ==
    LET RECURSIVE Decimal(_)
        Decimal(n) ==
            LET t == (n.hi % 10) * Half + n.lo
                digit == <<"0", "1", "2", "3", "4", "5", "6", "7", "8", "9">>[(t % 10) + 1]
                rest == [hi |-> n.hi \div 10, lo |-> t \div 10] IN
            IF rest = U32(0) THEN <<digit>> ELSE Append(Decimal(rest), digit) IN
    <<"v">> \o Decimal(version.major) \o <<".">> \o Decimal(version.minor)
        \o <<".">> \o Decimal(version.patch)

\* version_exists, download: format!("venice-{version}.bin")
RtFileName(version) ==
    <<"v", "e", "n", "i", "c", "e", "-">> \o Display(version) \o <<".", "b", "i", "n">>

\* nothing has been asked of the cache: `dir` holds the names of the files of the
\* cache directory
CacheIdle(version, dir) ==
    [pc |-> "idle", version |-> version, dir |-> dir, downloaded |-> None,
     exists |-> None, installed |-> Nothing]

\* format!("{version}"), as download writes it into the address of the release
DisplayVersion ==
    /\ cmd = "cache"
    /\ cache.pc = "idle"
    /\ text' = Display(cache.version)
    /\ cache' = [cache EXCEPT !.pc = "displayed"]
    /\ UNCHANGED <<tree, gen, parsed, search>>
    /\ UNCHANGED uploadVars /\ UNCHANGED cliVars /\ UNCHANGED buildVars

\* version_exists: tokio::fs::try_exists(dir.join(format!("venice-{version}.bin")))
VersionExists ==
    /\ cmd = "cache"
    /\ cache.pc = "idle"
    /\ text' = RtFileName(cache.version)
    /\ \E outcome \in {IF text' \in cache.dir THEN "true" ELSE "false", "Io"} :
         cache' = [cache EXCEPT !.pc = "named", !.exists = outcome]
    /\ UNCHANGED <<tree, gen, parsed, search>>
    /\ UNCHANGED uploadVars /\ UNCHANGED cliVars /\ UNCHANGED buildVars

\* download, before the directory is listed: the release is fetched and written to
\* dir/venice-<version>.bin, or the request (Network) or the write (Io) fails
Download ==
    /\ cmd = "cache"
    /\ cache.pc = "idle"
    /\ cache.downloaded = None
    /\ cache.installed = Nothing
    /\ \/ \E e \in {"Network", "Io"} : cache' = [cache EXCEPT !.downloaded = e]
       \/ cache' = [cache EXCEPT !.downloaded = "Ok",
                                 !.dir = @ \cup {RtFileName(cache.version)}]
    /\ UNCHANGED <<tree, gen, text, parsed, search>>
    /\ UNCHANGED uploadVars /\ UNCHANGED cliVars /\ UNCHANGED buildVars

\* installed_versions: read_dir in the order the file system has, a name that is no
\* UTF-8 skipped, and versions.push(version) for every name that parses, the parser
\* being the one of the element type of Vec<RtVersion>
InstalledVersions ==
    /\ cmd = "cache"
    /\ cache.pc = "idle"
    /\ cache.installed = Nothing
    /\ \/ cache' = [cache EXCEPT !.installed = Some([err |-> "Io", versions |-> <<>>,
                                                     after |-> cache.downloaded])]
       \/ \E entries \in [1..Cardinality(cache.dir) -> cache.dir] :
            LET RECURSIVE Versions(_)
                Versions(i) ==
                    IF i > Len(entries) THEN <<>>
                    ELSE LET name == entries[i]
                             version == FromStr(name) IN
                         IF (\E k \in DOMAIN name : name[k] = "0xFF") \/ version.err # None
                         THEN Versions(i + 1)
                         ELSE <<[major |-> version.major, minor |-> version.minor,
                                 patch |-> version.patch]>> \o Versions(i + 1) IN
            /\ \A i, j \in DOMAIN entries : entries[i] = entries[j] => i = j
            /\ cache' = [cache EXCEPT !.installed = Some([err |-> None,
                                                          versions |-> Versions(1),
                                                          after |-> cache.downloaded])]
    /\ UNCHANGED <<tree, gen, text, parsed, search>>
    /\ UNCHANGED uploadVars /\ UNCHANGED cliVars /\ UNCHANGED buildVars

-----------------------------------------------------------------------------
(* find_manifest *)

\* the deepest directory a run starts in
MaxDepth == 3

\* the directories: the root <<>>, a chain below it, and one beside the chain
Dirs == {[i \in 1..n |-> "d"] : n \in 0..MaxDepth} \cup {<<"x">>}

\* a pop that reports success at the root
Pop_NeverFails(dir) ==
    [popped |-> TRUE,
     dir |-> IF dir = <<>> THEN dir ELSE SubSeq(dir, 1, Len(dir) - 1)]

\* PathBuf::pop: truncates to the parent; false, and no change, at the root
Pop(dir) ==
    IF dir = <<>> THEN [popped |-> FALSE, dir |-> dir]
    ELSE [popped |-> TRUE, dir |-> SubSeq(dir, 1, Len(dir) - 1)]

\* find_manifest has not been called: `manifests` are the directories that hold a
\* Venice.toml, `dir` the argument, `checked` the directories looked into
SearchIdle(manifests, dir, current_dir) ==
    [pc |-> "idle", manifests |-> manifests, dir |-> dir, current_dir |-> current_dir,
     search_dir |-> <<>>, checked |-> <<>>, err |-> None, path |-> <<>>]

\* find_manifest up to the loop: with Some(dir) that directory alone is looked into;
\* without, std::env::current_dir() is where the walk starts
FindManifest ==
    /\ cmd = "find"
    /\ search.pc = "idle"
    /\ IF search.dir # Nothing
       THEN LET dir == Unwrap(search.dir)
                looked == [search EXCEPT !.pc = "done", !.checked = <<dir>>] IN
            \/ search' = [looked EXCEPT !.err = "Io"]
            \/ search' = IF dir \in search.manifests
                         THEN [looked EXCEPT !.path = Append(dir, "Venice.toml")]
                         ELSE [looked EXCEPT !.err = "NotFoundIn"]
       ELSE \/ search' = [search EXCEPT !.pc = "done", !.err = "Io"]
            \/ search' = [search EXCEPT !.pc = "loop",
                                        !.search_dir = search.current_dir]
    /\ UNCHANGED <<tree, gen, text, parsed, cache>>
    /\ UNCHANGED uploadVars /\ UNCHANGED cliVars /\ UNCHANGED buildVars

\* one turn of the loop: std::fs::exists(search_dir.join(MANIFEST_NAME)), then
\* search_dir.pop()
FindManifestStep ==
    /\ cmd = "find"
    /\ search.pc = "loop"
    /\ LET looked == [search EXCEPT !.checked = Append(@, search.search_dir)]
           parent == Pop(search.search_dir) IN
       \/ search' = [looked EXCEPT !.pc = "done", !.err = "Io"]
       \/ search' = IF search.search_dir \in search.manifests
                    THEN [looked EXCEPT !.pc = "done",
                                        !.path = Append(search.search_dir, "Venice.toml")]
                    ELSE IF ~parent.popped
                    THEN [looked EXCEPT !.pc = "done", !.err = "NotFoundInOrParent"]
                    ELSE [looked EXCEPT !.search_dir = parent.dir]
    /\ UNCHANGED <<tree, gen, text, parsed, cache>>
    /\ UNCHANGED uploadVars /\ UNCHANGED cliVars /\ UNCHANGED buildVars

\* the build's table generation over a source directory, or a parser on a string;
\* the file names handed to RtBin::from_str are strings that start like a version,
\* the empty one and one without the 'v', with or without 'venice-' in front and
\* '.bin' behind
InitTools ==
    LET \* the numbers of a version: small ones, those around a half, the largest
        Numbers == {U32(0), U32(7), U32(10), U32(Half - 1), U32(Half),
                    [hi |-> 15258, lo |-> 51712], [hi |-> Half - 1, lo |-> Half - 1]}
        \* files of the cache directory: venice-v1.2.3.bin, v1.2.3, venice-v1.2.bin
        \* and a name that is no UTF-8
        CacheNames ==
            {<<"v", "e", "n", "i", "c", "e", "-", "v", "1", ".", "2", ".", "3",
               ".", "b", "i", "n">>,
             <<"v", "1", ".", "2", ".", "3">>,
             <<"v", "e", "n", "i", "c", "e", "-", "v", "1", ".", "2", ".", "b", "i", "n">>,
             <<"v", "1", ".", "2", ".", "3", "0xFF">>}
        BinTexts ==
            {prefix \o middle \o ext :
               prefix \in {<<>>, <<"v", "e", "n", "i", "c", "e", "-">>,
                           <<"v", "e", "n", "i", "c", "e">>},
               middle \in {t \in VersionTexts : t # <<>> /\ t[1] = "v"}
                              \cup {<<>>, <<"1", ".", "2", ".", "3">>},
               ext \in {<<>>, <<".", "b", "i", "n">>, <<"b", "i", "n">>}} IN
    /\ cmd \in {"table", "parse", "bin", "find", "cache"}
    /\ impl = "src"
    /\ pc = "start"
    /\ channel = "Download"
    /\ brain = [f \in Files |-> Absent]
    /\ InitCommon
    /\ InitNoCli
    /\ InitNoBuild
    /\ parsed = Nothing
    /\ cache \in (IF cmd # "cache" THEN {[pc |-> "off"]}
                  ELSE {CacheIdle(version, {}) :
                          version \in [major : Numbers, minor : Numbers,
                                       patch : Numbers]}
                       \cup {CacheIdle(version, dir) :
                               version \in {[major |-> U32(1), minor |-> U32(2),
                                             patch |-> U32(n)] : n \in {3, 4}},
                               dir \in SUBSET CacheNames})
    /\ search \in (IF cmd # "find" THEN {[pc |-> "off"]}
                   ELSE {SearchIdle(manifests, dir, current_dir) :
                           manifests \in SUBSET Dirs,
                           dir \in {Nothing} \cup {Some(d) : d \in Dirs},
                           current_dir \in Dirs})
    /\ IF cmd = "table"
       THEN /\ tree \in SourceTrees
            /\ gen \in {GenIdle(name, Nothing) :
                         name \in {<<"a", "p", "p">>, <<"a", "/", "b">>}}
            /\ text = <<>>
       ELSE /\ tree = <<>>
            /\ gen = [pc |-> "off"]
            /\ text \in (CASE cmd = "parse" -> VersionTexts
                            [] cmd = "bin" -> BinTexts
                            [] OTHER -> {<<>>})

NextTools ==
    \/ FindModules \/ GenTable \/ GenAgain
    \/ RtVersionParse \/ RtBinParse
    \/ FindManifest \/ FindManifestStep
    \/ DisplayVersion \/ VersionExists \/ Download \/ InstalledVersions

SpecTools == InitTools /\ [][NextTools]_vars

-----------------------------------------------------------------------------
(* Properties *)

Running == result = None
Failed  == result \notin {None, "Ok"}

\* the number of UploadFile commands issued for a file
CountXfers(file) == Cardinality({i \in DOMAIN xfers : xfers[i].file = file})

Rank(file) == CASE file = "ini" -> 1 [] file = "rt" -> 2 [] file = "vpt" -> 3

\* C1 (as written): a manifest slot outside 1..8 makes upload fail with the slot-range
\* error, and when it fails so, no connection attempt, no compilation and no
\* runtime-image resolution has been started.
C1_NothingStarted ==
    /\ (manifest # Unloaded /\ manifest.slot \notin 1..8 /\ pc # "slot_check")
          => result = SlotOutOfRange
    /\ result = SlotOutOfRange
          => /\ conn_task \in {"none", "spawned"}
             /\ vpt = "none"
             /\ bin_fetch_task = "none"

\* C1 (amended): a manifest slot outside 1..8 makes upload fail with the slot-range
\* error; when it fails so, no compilation and no runtime-image resolution has been
\* started, the connection task has not been joined and no device request was made;
\* the connection task itself was spawned before the manifest was read.
C1_SlotRangeFailure ==
    /\ (manifest # Unloaded /\ manifest.slot \notin 1..8 /\ pc # "slot_check")
          => result = SlotOutOfRange
    /\ result = SlotOutOfRange
          => /\ manifest.slot \notin 1..8
             /\ conn_task # "none"
             /\ "conn" \notin joined
             /\ vpt = "none"
             /\ bin_fetch_task = "none"
             /\ issued = {}

\* the slot-range failure with the connection already opened in the background
C1_Witness == result = SlotOutOfRange /\ conn_task = "ok"

\* C2: when upload succeeds, a file (config, runtime) whose reported checksum equals
\* the local candidate's got no upload command, and a file that was absent or whose
\* reported checksum differs got exactly one.
C2_ChecksumSkip ==
    (cmd = "upload" /\ result = "Ok") =>
        \A f \in {"ini", "rt"} :
            LET rep == Unwrap(reported[f]) IN
            /\ rep = LocalCrc(f) => CountXfers(f) = 0
            /\ rep # LocalCrc(f) => CountXfers(f) = 1

C4_TransferOrder ==
    /\ \A i, j \in DOMAIN xfers : i < j => Rank(xfers[i].file) < Rank(xfers[j].file)
    /\ \A r \in inflight : r.req = "UploadFile" => (inflight = {r} /\ r = xfers[Len(xfers)])

\* all three transfers were made
C4_Witness == result = "Ok" /\ Len(xfers) = 3

\* C5: a successful upload transferred the program table exactly once, whatever the
\* device held; the table is never transferred twice.
C5_TableAlways ==
    /\ CountXfers("vpt") <= 1
    /\ (cmd = "upload" /\ result = "Ok") => CountXfers("vpt") = 1
    /\ (cmd = "upload" /\ pc \in {"vpt_wait"}) => CountXfers("vpt") = 1

\* config and runtime were both skipped and the device already held the table
C5_Witness ==
    /\ result = "Ok"
    /\ CountXfers("ini") = 0 /\ CountXfers("rt") = 0 /\ CountXfers("vpt") = 1
    /\ reported["ini"] = Some(LocalCrc("ini")) /\ reported["rt"] = Some(LocalCrc("rt"))

\* C6: the program table transfer carries a linked-file reference naming the runtime
\* image, the name of the runtime metadata query and of the runtime transfer.
C6_TableLinked ==
    \A i \in DOMAIN xfers :
        xfers[i].file = "vpt" => xfers[i].linked_file = RtBinName(manifest.venice_version)

\* a reply that is a NACK or a transport error
ErrorOutcomes == SerialErrors \cup {"NackProgramFile"}

\* the SerialError a failed handshake or command returns
ErrorOf(outcome) == IF outcome = "NackProgramFile" THEN "Nack" ELSE outcome

\* C7 (as written): a device step that ends in a NACK or a transport error makes
\* upload return that error with nothing left on the connection, and no file is
\* transferred twice.
C7_AnyErrorAborts ==
    /\ last_reply.outcome \in ErrorOutcomes =>
          (result = Serial(ErrorOf(last_reply.outcome)) /\ inflight = {})
    /\ \A f \in Files : CountXfers(f) <= 1

\* C7 (amended): a device step that ends in a NACK or a transport error makes upload
\* fail with that error, except that a "program file not found" NACK to a metadata
\* query means the file is absent and upload goes on, and that the polls of radio
\* negotiation are not steps of this kind: a NACK reply to a poll counts as a reply, a
\* failed poll of the silence phase ends that phase and the reconnect polling follows,
\* and a timed-out reconnect poll is retried until the bound, where upload fails with
\* the reconnect-timeout error. Once upload has returned nothing more is requested; no
\* file is transferred twice.
C7_ErrorAborts ==
    /\ [](LET r == last_reply IN
            r.outcome \in ErrorOutcomes =>
              CASE r.req.req = "GetFileMetadata" /\ r.outcome = "NackProgramFile" ->
                     result # Serial("Nack")
                [] r.req.req = "SilencePoll" /\ r.outcome = "Nack" ->
                     Running \/ result = RadioChannelDisconnectTimeout
                [] r.req.req = "SilencePoll" /\ r.outcome # "Nack" ->
                     Running /\ pc \in {"reconnect", "reconnect_wait"}
                [] r.req.req = "ReconnectPoll" /\ r.outcome = "Nack" ->
                     Running \/ result = "Ok"
                [] r.req.req = "ReconnectPoll" /\ r.outcome = "Timeout" ->
                     \/ (attempts <= ReconnectRetries /\ Running)
                     \/ (attempts = ReconnectRetries /\ result = RadioChannelReconnectTimeout)
                [] OTHER ->
                     result = Serial(r.outcome) /\ inflight = {})
    /\ [](\A f \in Files : CountXfers(f) <= 1)
    /\ [][~Running => UNCHANGED <<inflight, issued, xfers, brain>>]_vars

\* a metadata query was refused with a NACK other than "not found" and upload failed
C7_Witness ==
    /\ last_reply.req.req = "GetFileMetadata"
    /\ last_reply.outcome = "Nack"
    /\ result = Serial("Nack")
    /\ reported["ini"] = Some(Absent)

\* the transfer was issued, has returned, and did not fail
Completed(request) ==
    /\ \E i \in DOMAIN xfers : xfers[i] = request
    /\ request \notin inflight
    /\ ~(last_reply.req = request /\ last_reply.outcome # "Ack")

\* C8: every file whose transfer completed is on the device with the transferred
\* content, also after upload has failed; once upload has returned nothing on the
\* device changes and nothing is requested.
C8_NoRollback ==
    /\ [](\A i \in DOMAIN xfers :
            Completed(xfers[i]) => brain[xfers[i].file] = LocalCrc(xfers[i].file))
    /\ [][~Running => UNCHANGED <<brain, inflight, issued, xfers>>]_vars

\* the runtime transfer failed after the config transfer had completed
C8_Witness ==
    /\ Failed
    /\ Len(xfers) = 2
    /\ Completed(xfers[1])
    /\ reported["ini"] = Some(Absent)
    /\ brain["ini"] = LocalCrc("ini")

\* C9 (as written): over a wired link negotiation never issues a channel-select
\* request and always ends in success.
C9_WiredAlwaysOk ==
    link = "wired" =>
        /\ "SelectRadioChannel" \notin issued
        /\ pc = "done" => result = "Ok"

\* C9 (amended): over a wired link negotiation issues no channel-select request and no
\* poll; it ends in success unless its radio status, system version or system flags
\* query fails, and then it returns that query's error.
C9_WiredNoSelect ==
    link = "wired" =>
        /\ issued \subseteq {"GetRadioStatus", "GetSystemVersion", "GetSystemFlags"}
        /\ pc = "done" =>
              \/ result = "Ok" /\ last_reply.outcome = "Ack"
              \/ /\ last_reply.outcome \in SerialErrors
                 /\ result = Serial(last_reply.outcome)

\* a tethered controller was classified and negotiation succeeded
C9_Witness ==
    /\ link = "wired"
    /\ result = "Ok"
    /\ product_type = "Controller"
    /\ system_flags # Nothing

\* C10: on a wireless link that reports the target's channel code (5 for Download,
\* 31 for Pit) or the "already switched" code -11, negotiation succeeds at once: the
\* radio status query is the only request it makes.
C10_AlreadyOnTarget ==
    (/\ link = "wireless"
     /\ radio_status # Nothing
     /\ \/ (Unwrap(radio_status) = 5 /\ channel = "Download")
        \/ (Unwrap(radio_status) = 31 /\ channel = "Pit")
        \/ Unwrap(radio_status) = 0 - 11)
    => /\ pc = "done"
       /\ result = "Ok"
       /\ issued = {"GetRadioStatus"}
       /\ inflight = {}

\* the sentinel was reported while Pit was asked for
C10_Witness ==
    /\ link = "wireless"
    /\ channel = "Pit"
    /\ radio_status = Some(0 - 11)
    /\ result = "Ok"

-----------------------------------------------------------------------------
(* Radio channel negotiation: the two timeouts *)

SilencePoll == Handshake("SilencePoll", None)
ReconnectPoll == Handshake("ReconnectPoll", None)
Answers == {"Ack", "Nack"}

C12_StillAnswering ==
    /\ [](result = RadioChannelDisconnectTimeout
            => /\ ~silence_seen
               /\ attempts = 0
               /\ "ReconnectPoll" \notin issued
               /\ "SilencePoll" \in issued
               /\ elapsed >= DisconnectTicks)
    /\ [][(pc = "silence_sleep" /\ elapsed >= DisconnectTicks)
            => result' = RadioChannelDisconnectTimeout]_vars

\* the last poll before the timer expired was answered
C12_Witness ==
    /\ result = RadioChannelDisconnectTimeout
    /\ last_reply.req = SilencePoll
    /\ last_reply.outcome \in Answers

\* C13: the reconnect phase makes at most 32 attempts; an answered attempt ends it in
\* success at once; a timed-out attempt is followed by the next one, and by the
\* reconnect-timeout error when it was the 32nd; any other transport error is returned
\* as that transport error.
C13_ReconnectPhase ==
    /\ [](attempts <= ReconnectRetries)
    /\ [][pc = "reconnect_wait" =>
            LET out == last_reply'.outcome IN
            /\ last_reply'.req = ReconnectPoll
            /\ out \in Answers => (pc' = "done" /\ result' = "Ok")
            /\ out = "Timeout" =>
                  IF attempts < ReconnectRetries
                  THEN pc' = "reconnect" /\ result' = None
                  ELSE pc' = "done" /\ result' = RadioChannelReconnectTimeout
            /\ out \notin Answers \cup {"Timeout"} =>
                  /\ pc' = "done"
                  /\ result' = Serial(out)
                  /\ result' \notin {RadioChannelReconnectTimeout,
                                     RadioChannelDisconnectTimeout}]_vars

\* the 32nd attempt was the first one answered
C13_Witness ==
    /\ result = "Ok"
    /\ attempts = ReconnectRetries
    /\ last_reply.req = ReconnectPoll

\* C14: a negotiation that issued the channel-select request succeeds only after a
\* poll of the silence phase ended without a reply, on a reply to a later poll of the
\* reconnect phase; an answered poll of the silence phase never makes it succeed.
C14_SilenceBeforeReply ==
    /\ []((result = "Ok" /\ "SelectRadioChannel" \in issued)
            => /\ silence_seen
               /\ last_reply.req = ReconnectPoll
               /\ last_reply.outcome \in Answers)
    /\ [][(pc = "silence_wait" /\ last_reply'.outcome \in Answers)
            => (result' # "Ok" /\ pc' # "reconnect" /\ ~silence_seen')]_vars

\* silence, then the first reconnect attempt answered
C14_Witness ==
    /\ result = "Ok"
    /\ "SelectRadioChannel" \in issued
    /\ silence_seen
    /\ attempts = 1

RadioOutcomes ==
    {"Ok", RadioChannelDisconnectTimeout, RadioChannelReconnectTimeout}
        \cup {Serial(e) : e \in SerialErrors}

\* C15: negotiation always terminates, whatever the device answers: the timer of the
\* silence phase advances with every round of its loop and never passes 8 s, the
\* reconnect phase counts its attempts up to 32, and the call ends in success, the
\* disconnect-timeout error, the reconnect-timeout error or a transport error.
C15_Terminates ==
    /\ <>(pc = "done")
    /\ [](pc = "done" <=> result \in RadioOutcomes)
    /\ [](elapsed <= DisconnectTicks /\ attempts <= ReconnectRetries)
    /\ [][pc = "silence_sleep" => (elapsed' > elapsed \/ pc' = "done")]_vars
    /\ [][pc = "reconnect" => attempts' > attempts]_vars

\* replying, then silent, then replying again after some unanswered attempts
C15_Witness ==
    /\ pc = "done"
    /\ result = "Ok"
    /\ silence_seen
    /\ attempts > 1
    /\ attempts < ReconnectRetries

\* C16: when upload issues a file metadata query or a file transfer, radio channel
\* negotiation has been gone through on the connection (its radio status query was
\* issued and the negotiation returned).
C16_NegotiatedFirst ==
    ("GetFileMetadata" \in issued \/ xfers # <<>>) => "GetRadioStatus" \in issued

\* C18: at most one device request is in flight at any time; a request is put on the
\* connection only by a step of upload itself, after the connection task was joined,
\* and never by a step of a background task; a poll the 8 s timer overtakes is
\* dropped, not left in flight.
C18_OneInFlight ==
    /\ [](Cardinality(inflight) <= 1)
    /\ [](inflight # {} => ("conn" \in joined /\ Running))
    /\ [][inflight' # inflight =>
            /\ pc' # pc
            /\ "conn" \in joined
            /\ conn_task' = conn_task
            /\ bin_fetch_task' = bin_fetch_task]_vars

\* a poll in flight when the 8 s timer expires, the runtime fetch still running
C18_Witness ==
    /\ inflight = {SilencePoll}
    /\ elapsed >= DisconnectTicks
    /\ bin_fetch_task = "running"

-----------------------------------------------------------------------------
(* The post-upload action and build *)

\* the action the command line asks for, read off the command line itself
AskedAction ==
    IF cli.verb = "run" THEN "RunProgram"
    ELSE IF cli.after_upload = Nothing THEN "ShowRunScreen"
    ELSE CASE Unwrap(cli.after_upload) = "halt" -> "Halt"
           [] Unwrap(cli.after_upload) = "do-nothing" -> "DoNothing"
           [] Unwrap(cli.after_upload) = "show-run-screen" -> "ShowRunScreen"
           [] Unwrap(cli.after_upload) = "run-program" -> "RunProgram"

C19_TablePolicy ==
    (bld.pc = "done" /\ bld.result = "Ok") =>
        LET before == Unwrap(bld.entry) IN
        /\ bld.wrote <=> (bld.invoked # {} \/ before.table = Nothing)
        /\ ~bld.wrote =>
              /\ disk.table = before.table
              /\ bld.which = "build.rs" => bld.bytes = before.table

\* the modules a run found with a source not strictly older than its artifact
StaleAtEntry ==
    LET before == Unwrap(bld.entry) IN
    {m \in Mods : Modified(before.src[m]) >= Modified(before.art[m])}

\* C20 (as written): a successful run of build after a successful one, with no source
\* changed in between, invokes the compiler for no module and yields the table bytes
\* of the first run.
C20_Idempotent ==
    (bld.pc = "done" /\ bld.result = "Ok" /\ bld.last.runs >= 1 /\ ~bld.last.changed) =>
        /\ bld.invoked = {}
        /\ bld.bytes = bld.last.bytes

\* C20 (amended): such a run invokes the compiler exactly for the modules whose source
\* time is equal to or later than their artifact's; when there is none (every artifact
\* strictly newer than its source), it invokes the compiler zero times, writes no
\* table and yields the table bytes of the first run.
C20_IdempotentWhenFresh ==
    (bld.pc = "done" /\ bld.result = "Ok" /\ bld.last.runs >= 1 /\ ~bld.last.changed) =>
        /\ bld.invoked = StaleAtEntry
        /\ StaleAtEntry = {} =>
              /\ bld.invoked = {}
              /\ ~bld.wrote
              /\ bld.bytes = bld.last.bytes
              /\ disk.table = Unwrap(bld.last.table)

\* the first run compiled a module, the second one found nothing to do
C20_Witness ==
    /\ bld.pc = "done"
    /\ bld.result = "Ok"
    /\ bld.which = "build.rs"
    /\ bld.last.runs = 1
    /\ ~bld.last.changed
    /\ bld.invoked = {}
    /\ bld.bytes = bld.last.bytes
    /\ \E m \in Mods : disk.art[m].mtime = MaxTime

-----------------------------------------------------------------------------
(* The Module Builder *)

\* a run of build is under way or over
InRun == bld.entry # Nothing

\* the module's source, as the run found it, is not strictly older than its artifact
NotOlder(m) ==
    LET before == Unwrap(bld.entry) IN
    \/ ~before.art[m].exists
    \/ ~(before.src[m].mtime < before.art[m].mtime)

\* C21: the compiler is invoked for a module iff its source modification time is not
\* strictly older than its artifact's: equal times and a missing artifact count as
\* stale, and a module whose source is strictly older is never recompiled.
C21_StaleIffNotOlder ==
    InRun =>
        \A m \in Mods :
            /\ m \in bld.invoked => NotOlder(m)
            /\ m < bld.idx => (m \in bld.invoked <=> NotOlder(m))

\* one module with equal times was compiled, one with an older source was left alone
C21_Witness ==
    /\ InRun
    /\ bld.pc = "done"
    /\ bld.result = "Ok"
    /\ \E m \in Mods :
          /\ Unwrap(bld.entry).art[m].exists
          /\ Unwrap(bld.entry).src[m].mtime = Unwrap(bld.entry).art[m].mtime
          /\ m \in bld.invoked
    /\ \E m \in Mods :
          /\ Unwrap(bld.entry).src[m].mtime < Unwrap(bld.entry).art[m].mtime
          /\ m \notin bld.invoked

\* the compiler was started for the module and exited non-zero
ExitedNonZero(m) ==
    /\ bld.outputs[m] # Nothing
    /\ Unwrap(bld.outputs[m]).started
    /\ ~Unwrap(bld.outputs[m]).success

\* C22: when the compiler starts for a stale module and exits non-zero, the run ends
\* at once with a Compiler error carrying that module's source path and the captured
\* error text; no module later in the list is compiled, and the program table is
\* neither regenerated nor written in that run.
C22_NonZeroExitAborts ==
    \A m \in Mods :
        ExitedNonZero(m) =>
            LET before == Unwrap(bld.entry)
                captured == Unwrap(bld.outputs[m]).stderr IN
            /\ bld.pc = "done"
            /\ bld.result = "Compiler"
            /\ bld.err # Nothing
            /\ Unwrap(bld.err).file = SrcPath(m)
            /\ Len(Unwrap(bld.err).stderr) = Len(captured)
            /\ \A i \in DOMAIN captured :
                  captured[i] # "0xFF" => Unwrap(bld.err).stderr[i] = captured[i]
            /\ \A n \in Mods :
                  n > m => /\ n \notin bld.invoked
                           /\ bld.outputs[n] = Nothing
                           /\ disk.art[n] = before.art[n]
            /\ ~bld.wrote
            /\ bld.bytes = Nothing
            /\ disk.table = before.table

\* the compiler failed on the first module while the second one was stale as well
C22_Witness ==
    /\ InRun
    /\ ExitedNonZero(1)
    /\ Unwrap(bld.outputs[1]).stderr = <<"SyntaxError">>
    /\ bld.err = Some([file |-> SrcPath(1), stderr |-> <<"SyntaxError">>])
    /\ NotOlder(2)
    /\ 2 \notin bld.invoked

\* the compiler was launched for the module and could not be started
LaunchFailed(m) ==
    /\ bld.outputs[m] # Nothing
    /\ ~Unwrap(bld.outputs[m]).started

\* build_modules has returned Ok and build has returned
ModulesDone == bld.pc = "done" /\ bld.idx > NumModules

\* C23 (as written): when the compiler for a stale module fails to start, no error is
\* raised for it, the remaining modules are processed, and the table is regenerated
\* in that run (short of a failure to write the table file itself).
C23_LaunchFailureRegenerates ==
    \A m \in Mods :
        LaunchFailed(m) =>
            /\ bld.idx > m
            /\ ModulesDone =>
                  \/ bld.wrote
                  \/ bld.result = "Io" /\ \A n \in Mods : disk.art[n].exists

\* C23 (amended): when the compiler for a stale module fails to start, no error is
\* raised for it and its artifact is left as it was; the loop goes on with the next
\* module, and the module counts as rebuilt.  Once every module is processed the
\* table is regenerated from the artifacts on disk: it is written (short of an Io
\* failure) when every artifact exists, and the run fails with Io, writing no table,
\* when one is missing.
C23_LaunchFailureSwallowed ==
    \A m \in Mods :
        LaunchFailed(m) =>
            LET before == Unwrap(bld.entry) IN
            /\ bld.idx > m
            /\ bld.rebuild_table
            /\ m \in bld.invoked
            /\ disk.art[m] = before.art[m]
            /\ (bld.pc = "done" /\ ~ModulesDone) => bld.result \in {"Compiler", "Io"}
            /\ ModulesDone =>
                  /\ bld.result \in {"Ok", "Io"}
                  /\ bld.wrote <=> bld.result = "Ok"
                  /\ bld.wrote => disk.table = Some(TableOf("prog", disk.art))
                  /\ (\E n \in Mods : ~disk.art[n].exists) =>
                        /\ bld.result = "Io"
                        /\ disk.table = before.table

\* the compiler could not be started for the first module, whose older artifact
\* went into the table the run wrote after compiling the second one
C23_Witness ==
    /\ InRun
    /\ LaunchFailed(1)
    /\ ModulesDone
    /\ bld.result = "Ok"
    /\ bld.wrote
    /\ 2 \in bld.invoked
    /\ disk.art[1] = Unwrap(bld.entry).art[1]

-----------------------------------------------------------------------------
(* Module discovery, module names and the program table *)

\* the package-marker file, and the source files of a directory
MarkerFile == PACKAGE_INIT_NAME \o <<".", "p", "y">>
SourceFiles(dir) == {n \in tree[dir] : EndsWith(n, <<".", "p", "y">>)}

\* every directory from the source root down to dir holds the marker file
MarkedFromRoot(dir) ==
    \A k \in 0..Len(dir) : MarkerFile \in tree[SubSeq(dir, 1, k)]

\* find_modules has returned its list
Found == gen.pc = "found" \/ (gen.pc = "done" /\ gen.result = "Ok")

\* C24: discovery returns exactly the source files all of whose enclosing
\* directories, from the source root down to the file's own, hold the marker file,
\* each of them once: a directory without the marker contributes nothing, nor does
\* any directory below it, marked or not.
C24_DiscoversMarkedOnly ==
    Found =>
        LET under(d) == {FromPath(d \o <<n>>) : n \in SourceFiles(d)} IN
        /\ {gen.modules[i] : i \in DOMAIN gen.modules}
             = UNION {under(d) : d \in {x \in DOMAIN tree : MarkedFromRoot(x)}}
        /\ \A i, j \in DOMAIN gen.modules : gen.modules[i] = gen.modules[j] => i = j
        /\ \A d \in DOMAIN tree :
             ~MarkedFromRoot(d) =>
                 \A i \in DOMAIN gen.modules : gen.modules[i] \notin under(d)

\* src/ is marked and src/sub/ is not: the modules of src/ were found, and mod.py of
\* the marked src/sub/deep/ was not
C24_Witness ==
    /\ gen.pc = "found"
    /\ MarkerFile \in tree[<<>>]
    /\ MarkerFile \notin tree[<<<<"s", "u", "b">>>>]
    /\ tree[<<<<"s", "u", "b">>, <<"d", "e", "e", "p">>>>]
         = {MarkerFile, <<"m", "o", "d", ".", "p", "y">>}
    /\ Len(gen.modules) = Cardinality(SourceFiles(<<>>))
    /\ Len(gen.modules) >= 2

\* the table generation has added its programs
Generated == gen.pc = "done" /\ gen.result = "Ok"

\* the name the file n of directory dir is to get: the package name, then a '.' and
\* the segment for every directory and for the file's stem, a last segment that is
\* the marker's base name left out
NameOf(dir, n) ==
    LET segments == dir \o <<SubSeq(n, 1, Len(n) - Len(<<".", "p", "y">>))>>
        kept == IF segments[Len(segments)] = PACKAGE_INIT_NAME
                THEN SubSeq(segments, 1, Len(segments) - 1)
                ELSE segments
        RECURSIVE Dots(_)
        Dots(i) == IF i > Len(kept) THEN <<>> ELSE <<".">> \o kept[i] \o Dots(i + 1) IN
    gen.package_name \o Dots(1)

\* C25: a module's name is the package name, a '.', and the extension-less relative
\* path with '.' for every separator; a last segment that is exactly the marker's base
\* name is left out with its separator (sub/mod.py under app is app.sub.mod, the root
\* marker file is app), and any other module keeps its full name.
C25_ModuleNames ==
    Generated =>
        \A i \in DOMAIN gen.modules :
            \A d \in DOMAIN tree :
                \A n \in SourceFiles(d) :
                    gen.modules[i] = FromPath(d \o <<n>>) =>
                        gen.programs[i + 1].name = NameOf(d, n)

\* C26: the entries of a regenerated table come in the same order in every run over
\* the same source files, whatever the order in which the file system enumerates the
\* directory entries: the table of a second generation is byte for byte the first.
C26_SameOrderEveryRun ==
    (Generated /\ gen.first # Nothing) => gen.table = gen.first

\* C27: a regenerated table has one entry per discovered module plus the name entry,
\* which comes first; the name-pool offset is the header size plus entry count times
\* the pointer-record size, and the bytecode-pool offset is the name-pool offset plus
\* the sum of all name lengths.
C27_CountAndOffsets ==
    Generated =>
        LET table == Unwrap(gen.table)
            RECURSIVE NameLengths(_)
            NameLengths(i) == IF i > Len(table.pointers) THEN 0
                              ELSE table.pointers[i].name_len + NameLengths(i + 1) IN
        /\ table.header.entry_count = Len(gen.modules) + 1
        /\ Len(table.pointers) = table.header.entry_count
        /\ SubSeq(table.names, 1, table.pointers[1].name_len)
             = VENICE_PACKAGE_NAME_PROGRAM
        /\ table.header.name_pool_offset
             = HeaderSize + table.header.entry_count * PointerSize
        /\ table.header.bytecode_pool_offset
             = table.header.name_pool_offset + NameLengths(1)
        /\ Len(table.names) = NameLengths(1)

\* a table of three modules: four entries, the pools behind four pointer records
C27_Witness ==
    /\ Generated
    /\ Len(gen.modules) = 3
    /\ Unwrap(gen.table).header.entry_count = 4
    /\ Unwrap(gen.table).header.name_pool_offset = HeaderSize + 4 * PointerSize
    /\ Unwrap(gen.table).header.bytecode_pool_offset
         > Unwrap(gen.table).header.name_pool_offset
           + Len(VENICE_PACKAGE_NAME_PROGRAM)

\* C28: every payload in the table is a one-byte flag field followed by the
\* unmodified content: the name entry has flag byte 0 and then the declared program
\* name; a module entry has bit 0 set, and bit 1 set iff the module's source is a
\* package-marker file, and then the artifact bytes.
C28_FlagThenContent ==
    Generated =>
        /\ gen.programs[1].payload = <<"0x00">> \o gen.package_name
        /\ \A i \in DOMAIN gen.modules :
             LET payload == gen.programs[i + 1].payload
                 is_package == \E d \in DOMAIN tree :
                                  /\ MarkerFile \in tree[d]
                                  /\ gen.modules[i] = FromPath(d \o <<MarkerFile>>) IN
             /\ payload[1] \in {"0x01", "0x03"}
             /\ payload[1] = "0x03" <=> is_package
             /\ Tail(payload) = Mpy(gen.modules[i])

-----------------------------------------------------------------------------
(* Link classification *)

\* negotiation took the link for wireless: it went on to the channel selection
TakenForWireless == pc = "select_channel" \/ "SelectRadioChannel" \in issued

\* C29: the link is classified wireless iff the reported product type is the
\* controller and bit 8 of the system flags, the tethered bit, is not set, and wired
\* in every other combination; a failed system version or system flags query yields
\* that error and no classification.
C29_LinkClassification ==
    /\ system_flags # Nothing =>
         LET flags == Unwrap(system_flags)
             wireless == product_type = "Controller" /\ (flags \div 256) % 2 = 0 IN
         /\ TakenForWireless <=> wireless
         /\ ~wireless => pc = "done" /\ result = "Ok"
    /\ (/\ last_reply.req.req \in {"GetSystemVersion", "GetSystemFlags"}
        /\ last_reply.outcome # "Ack") =>
         /\ pc = "done"
         /\ result = Serial(last_reply.outcome)
         /\ system_flags = Nothing
         /\ ~TakenForWireless

\* a controller whose flags have bit 9 set and bit 8 clear was taken for wireless
C29_Witness ==
    /\ pc = "select_channel"
    /\ product_type = "Controller"
    /\ system_flags # Nothing
    /\ Unwrap(system_flags) = 512

-----------------------------------------------------------------------------
(* Runtime version strings *)

DecimalDigits == {"0", "1", "2", "3", "4", "5", "6", "7", "8", "9"}

\* an unsigned number as written: one or more decimal digits
IsNumber(c) == c # <<>> /\ \A i \in DOMAIN c : c[i] \in DecimalDigits

\* the value of at most five decimal digits
RECURSIVE IntOf(_)
IntOf(d) ==
    IF d = <<>> THEN 0
    ELSE IntOf(SubSeq(d, 1, Len(d) - 1)) * 10
         + (CHOOSE k \in 0..9 : ToString(k) = d[Len(d)])

\* what u32 parsing accepts: an optional '+', then one or more decimal digits, ten at
\* most here, whose value is at most 4294967295 (42949 * 10^5 + 67295)
IsU32(c) ==
    LET d == IF c # <<>> /\ c[1] = "+" THEN Tail(c) ELSE c
        upper == IntOf(SubSeq(d, 1, Len(d) - 5))
        lower == IntOf(SubSeq(d, Len(d) - 4, Len(d))) IN
    /\ IsNumber(d)
    /\ Len(d) <= 10
    /\ Len(d) = 10 => (upper < 42949 \/ (upper = 42949 /\ lower <= 67295))

\* the u32 v is the value of the digits of c: v = upper * 10^5 + lower, compared in
\* quarters to stay within the integers at hand
IsValueOf(v, c) ==
    LET d == IF c # <<>> /\ c[1] = "+" THEN Tail(c) ELSE c
        upper == IF Len(d) <= 5 THEN 0 ELSE IntOf(SubSeq(d, 1, Len(d) - 5))
        lower == IF Len(d) <= 5 THEN IntOf(d) ELSE IntOf(SubSeq(d, Len(d) - 4, Len(d))) IN
    /\ v.hi * (Half \div 4) + v.lo \div 4 = upper * 25000 + lower \div 4
    /\ v.lo % 4 = lower % 4

\* the outcome for `text` when the first fault from the left decides, the number
\* components being those IsNum accepts
Outcome(IsNum(_)) ==
    IF text = <<>> THEN "TooShort"
    ELSE IF text[1] # "v" THEN "Malformed"
    ELSE LET components == Split(Tail(text))
             n == Len(components) IN
         IF \E i \in 1..n : i <= 3 /\ ~IsNum(components[i]) THEN "InvalidNumber"
         ELSE IF n < 3 THEN "TooShort"
         ELSE IF n > 3 THEN "TooLong"
         ELSE "Ok"

\* the outcome the parser returned
Returned ==
    LET r == Unwrap(parsed) IN
    IF r.err = None THEN "Ok"
    ELSE IF r.err \in {"TooShort", "TooLong", "Malformed"} THEN r.err
    ELSE IF r.err \in {"InvalidNumber(Empty)", "InvalidNumber(InvalidDigit)",
                       "InvalidNumber(PosOverflow)"} THEN "InvalidNumber"
    ELSE "?"

\* the three numbers of an Ok are the values of the three components
YieldsComponents ==
    Returned = "Ok" =>
        LET components == Split(Tail(text)) IN
        /\ IsValueOf(Unwrap(parsed).major, components[1])
        /\ IsValueOf(Unwrap(parsed).minor, components[2])
        /\ IsValueOf(Unwrap(parsed).patch, components[3])

\* C30 (as written): parsing succeeds exactly for 'v' followed by three '.'-separated
\* unsigned numbers and yields them; a non-empty string not starting with 'v' fails
\* with Malformed, a non-numeric component with InvalidNumber, fewer than three
\* components or an empty string with TooShort, a fourth component with TooLong.
C30_ParsesThreeNumbers ==
    (cmd = "parse" /\ parsed # Nothing) => (Returned = Outcome(IsNumber) /\ YieldsComponents)

\* C30 (amended): the numbers are what u32 parsing accepts (an optional '+', digits,
\* a value of at most 4294967295), an empty component is no number, and the first
\* fault from the left decides the error.
C30_ParsesThreeU32 ==
    (cmd = "parse" /\ parsed # Nothing) => (Returned = Outcome(IsU32) /\ YieldsComponents)

\* v+3.02.4294967295 was parsed as 3, 2 and 4294967295
C30_Witness ==
    /\ text = <<"v", "+", "3", ".", "0", "2", ".",
                "4", "2", "9", "4", "9", "6", "7", "2", "9", "5">>
    /\ parsed = Some([err |-> None, major |-> U32(3), minor |-> U32(2),
                      patch |-> [hi |-> Half - 1, lo |-> Half - 1]])

-----------------------------------------------------------------------------
(* Runtime file names *)

\* the parts of `text` as a file name: whether it starts with 'venice-', whether it
\* ends with '.bin', and what stands between the two
NameParts ==
    LET n == Len(text) IN
    [prefix |-> n >= 7 /\ SubSeq(text, 1, 7) = <<"v", "e", "n", "i", "c", "e", "-">>,
     ext |-> n >= 4 /\ SubSeq(text, n - 3, n) = <<".", "b", "i", "n">>,
     middle |-> SubSeq(text, 8, n - 4)]

\* C31: parsing a runtime file name succeeds exactly for 'venice-' + a valid version
\* string + '.bin' and yields that version; without the prefix it fails with
\* BadPrefix, also when the extension is missing too; with the prefix and without
\* the extension with BadExtension; with both and an invalid version in between
\* with VersionError.
C31_RtBinParse ==
    (cmd = "bin" /\ parsed # Nothing) =>
        LET r == Unwrap(parsed)
            v == FromStr(NameParts.middle) IN
        /\ r.err = None <=> (NameParts.prefix /\ NameParts.ext /\ v.err = None)
        /\ r.err = None =>
               r.version = [major |-> v.major, minor |-> v.minor, patch |-> v.patch]
        /\ ~NameParts.prefix => r.err = "BadPrefix"
        /\ (NameParts.prefix /\ ~NameParts.ext) => r.err = "BadExtension"
        /\ (NameParts.prefix /\ NameParts.ext /\ v.err # None) =>
               r.err = "VersionError(" \o v.err \o ")"

\* venice-v1.02.+3.bin was parsed to 1.2.3
C31_Witness ==
    /\ cmd = "bin"
    /\ text = <<"v", "e", "n", "i", "c", "e", "-", "v", "1", ".", "0", "2", ".",
                "+", "3", ".", "b", "i", "n">>
    /\ parsed = Some([err |-> None,
                      version |-> [major |-> U32(1), minor |-> U32(2),
                                   patch |-> U32(3)]])

\* a name lacking both the prefix and the extension was refused with BadPrefix
C31_WitnessBoth ==
    /\ cmd = "bin"
    /\ text = <<"v", "1", ".", "0", "2", ".", "+", "3">>
    /\ parsed # Nothing
    /\ Unwrap(parsed).err = "BadPrefix"

-----------------------------------------------------------------------------
(* The file metadata query *)

\* the metadata query for `file` returns in this step
MetadataReturns(file) ==
    /\ pc = "meta_" \o file \o "_wait"
    /\ pc' # pc

\* what upload made of the reply to the query for `file`: the file state the device
\* reported and no upload on Ack, an upload and no error on the "program file not
\* found" NACK, an error and no upload decision on anything else
MetadataMapped(file, needs, needs_after) ==
    LET out == last_reply'.outcome IN
    /\ last_reply'.req.req = "GetFileMetadata"
    /\ out = "Ack" =>
          /\ reported'[file] = Some(brain[file])
          /\ brain[file] # Absent
          /\ needs_after = Some(FALSE)
          /\ result' = result
    /\ out = "NackProgramFile" =>
          /\ needs_after = Some(TRUE)
          /\ result' = result
    /\ out \notin {"Ack", "NackProgramFile"} =>
          /\ out \in SerialErrors
          /\ result' = Serial(out)
          /\ pc' = "done"
          /\ needs_after = needs
          /\ needs = Nothing

\* C32: the file metadata query yields the reported file state on an acknowledged
\* reply, "absent" and no error on the "program file not found" NACK, and an error
\* on every other NACK or transport failure; upload takes "absent" for needs-upload
\* and never an error.
C32_MetadataReplies ==
    [][/\ MetadataReturns("ini") =>
              MetadataMapped("ini", needs_ini_upload, needs_ini_upload')
       /\ MetadataReturns("rt") =>
              MetadataMapped("rt", needs_rt_upload, needs_rt_upload')]_vars

\* the device lacked the config file, answered "program file not found", and upload
\* went on to ask for the runtime image with the config file marked for upload
C32_Witness ==
    /\ pc = "meta_rt"
    /\ last_reply.req.req = "GetFileMetadata"
    /\ last_reply.outcome = "NackProgramFile"
    /\ needs_ini_upload = Some(TRUE)
    /\ result = None

-----------------------------------------------------------------------------
(* Runtime-image resolution *)

\* the runtime-resolution task ended in an error or a panic
FetchFailed == bin_fetch_task \in FetchErrors \cup {Panic}

\* C33: a failure of runtime-image resolution makes upload fail in every run, also
\* when the device already holds the runtime image and no runtime transfer is
\* needed: upload never returns Ok after the runtime-resolution task has failed.
C33_FetchFailureFailsUpload ==
    (cmd = "upload" /\ result = "Ok") => ~FetchFailed

\* what the code does: a failed resolution fails the upload when the runtime image
\* has to be transferred
C33_FetchFailureWhenNeeded ==
    (cmd = "upload" /\ result = "Ok" /\ needs_rt_upload = Some(TRUE)) => ~FetchFailed

-----------------------------------------------------------------------------
(* The slot in the file names and in the config content *)

\* the decimal form of a slot of 1..8
SlotDigit(slot) ==
    CASE slot = 1 -> "1" [] slot = 2 -> "2" [] slot = 3 -> "3" [] slot = 4 -> "4"
      [] slot = 5 -> "5" [] slot = 6 -> "6" [] slot = 7 -> "7" [] slot = 8 -> "8"

\* every request that names the config file or the table, whether a metadata query
\* or a transfer, names it after the one-based slot
NamedAfterSlot(request) ==
    /\ (request.req = "GetFileMetadata"
        /\ request.name # RtBinName(manifest.venice_version)) =>
          request.name = "slot_" \o SlotDigit(manifest.slot) \o ".ini"
    /\ (request.req = "UploadFile" /\ request.file = "ini") =>
          request.name = "slot_" \o SlotDigit(manifest.slot) \o ".ini"
    /\ (request.req = "UploadFile" /\ request.file = "vpt") =>
          request.name = "slot_" \o SlotDigit(manifest.slot) \o ".bin"

\* C34: for every slot accepted by validation (1..8) upload names the config file
\* slot_<slot>.ini and the table file slot_<slot>.bin after the one-based slot and
\* writes slot - 1 (0..7) into the config content; the subtraction is never reached
\* with slot 0, so it never underflows.
C34_SlotNamesAndContent ==
    /\ ini_data # Nothing =>
          /\ manifest.slot \in 1..8
          /\ Unwrap(ini_data) = manifest.slot - 1
          /\ Unwrap(ini_data) \in 0..7
    /\ \A request \in inflight : NamedAfterSlot(request)
    /\ \A i \in DOMAIN xfers : NamedAfterSlot(xfers[i])
    /\ (manifest # Unloaded /\ manifest.slot \in 1..8 /\ result = "Ok") =>
          /\ ini_data # Nothing
          /\ \E i \in DOMAIN xfers : xfers[i].file = "vpt"

\* slot 8: slot_8.ini was transferred with 7 as its content's slot, and slot_8.bin
\* is on its way
C34_Witness ==
    /\ manifest # Unloaded
    /\ manifest.slot = 8
    /\ ini_data = Some(7)
    /\ \E i \in DOMAIN xfers : xfers[i].file = "ini" /\ xfers[i].name = "slot_8.ini"
    /\ \E request \in inflight : request.req = "UploadFile" /\ request.name = "slot_8.bin"

-----------------------------------------------------------------------------
(* clean, then build *)

\* the run of build that just returned Ok is the first to do so since clean removed
\* the build directory
FirstOkSinceClean ==
    /\ bld.pc = "done"
    /\ bld.result = "Ok"
    /\ bld.last.cleaned

\* C35: after clean has removed the build directory, the next successful build
\* regenerates and writes the program table file, for every project including one
\* with no module, so that it leaves a table file on disk.
C35_CleanThenBuildWritesTable ==
    FirstOkSinceClean => (bld.wrote /\ disk.table # Nothing)

\* the same of build of src/src/build.rs alone
C35_BuildRsWritesTable ==
    (FirstOkSinceClean /\ bld.which = "build.rs") => (bld.wrote /\ disk.table # Nothing)

\* build of src/src/build.rs wrote the table of a project without modules after clean
C35_ReachedNoModules ==
    /\ FirstOkSinceClean
    /\ bld.which = "build.rs"
    /\ \A m \in Mods : ~disk.src[m].exists
    /\ bld.wrote
    /\ disk.table # Nothing

-----------------------------------------------------------------------------
(* find_manifest *)

\* the current directory and the directories above it, nearest first, the root last
Ancestors(dir) == [i \in 1..(Len(dir) + 1) |-> SubSeq(dir, 1, Len(dir) + 1 - i)]

\* `sub` is the beginning of `seq`
IsPrefix(sub, seq) == Len(sub) <= Len(seq) /\ SubSeq(seq, 1, Len(sub)) = sub

\* what find_manifest returned with a directory handed in: that directory alone was
\* looked into, and its manifest is returned exactly if it has one
ExplicitOnly ==
    LET dir == Unwrap(search.dir) IN
    /\ search.checked = <<dir>>
    /\ search.err = None <=> (search.path = Append(dir, "Venice.toml")
                              /\ dir \in search.manifests)
    /\ search.err # None => search.err \in {"NotFoundIn", "Io"}
    /\ search.err = "NotFoundIn" => dir \notin search.manifests

\* what find_manifest returned without one: the directories looked into are the
\* current directory and those above it, nearest first; a manifest returned is that
\* of the nearest of them that has one; not-found is returned with the root looked
\* into and no manifest on the way
NearestAncestor ==
    LET up == Ancestors(search.current_dir)
        n == Len(search.checked) IN
    /\ IsPrefix(search.checked, up)
    /\ \A i \in 1..(n - 1) : search.checked[i] \notin search.manifests
    /\ search.err = None =>
          /\ n >= 1
          /\ search.checked[n] \in search.manifests
          /\ search.path = Append(search.checked[n], "Venice.toml")
    /\ search.err = "NotFoundInOrParent" =>
          /\ search.checked = up
          /\ \A i \in 1..n : search.checked[i] \notin search.manifests
    /\ search.err \in {None, "NotFoundInOrParent", "Io"}

\* C36: find_manifest with an explicit directory checks only that directory and
\* never its parents; without one it walks from the current directory upward and
\* returns the manifest of the nearest ancestor that has one; the walk terminates:
\* every turn of the loop returns or moves one directory up, and not-found is
\* returned once the root has been checked without success.
C36_FindManifest ==
    /\ [](search.pc = "done" =>
             IF search.dir # Nothing THEN ExplicitOnly ELSE NearestAncestor)
    /\ [](search.pc = "loop" =>
             (search.dir = Nothing /\ IsPrefix(search.search_dir, search.current_dir)))
    /\ [][search.pc = "loop" =>
             \/ search'.pc = "done"
             \/ /\ search'.pc = "loop"
                /\ Len(search'.search_dir) = Len(search.search_dir) - 1]_vars

\* started three directories deep, the walk passed two directories without a manifest
\* and returned the one of the third, with one more above it left alone
C36_Witness ==
    /\ search.pc = "done"
    /\ search.dir = Nothing
    /\ search.current_dir = <<"d", "d", "d">>
    /\ search.manifests = {<<"d">>, <<>>}
    /\ search.checked = <<<<"d", "d", "d">>, <<"d", "d">>, <<"d">>>>
    /\ search.err = None
    /\ search.path = <<"d", "Venice.toml">>

\* an explicit directory without a manifest was refused though its parent has one
C36_WitnessExplicit ==
    /\ search.pc = "done"
    /\ search.dir = Some(<<"d", "d">>)
    /\ search.manifests = {<<"d">>}
    /\ search.checked = <<<<"d", "d">>>>
    /\ search.err = "NotFoundIn"

\* the walk reached the root without success
C36_WitnessNotFound ==
    /\ search.pc = "done"
    /\ search.dir = Nothing
    /\ search.current_dir = <<"d", "d">>
    /\ search.checked = <<<<"d", "d">>, <<"d">>, <<>>>>
    /\ search.err = "NotFoundInOrParent"

-----------------------------------------------------------------------------
(* The runtime cache *)

\* C37: formatting a runtime version and parsing the result returns the same
\* version; and the file name under which the cache stores and looks up a version
\* (venice-<version>.bin) parses back as a runtime file name to that version.
C37_RoundTrip ==
    (cmd = "cache" /\ parsed # Nothing) =>
        LET r == Unwrap(parsed) IN
        /\ r.err = None
        /\ cache.pc = "displayed" =>
              [major |-> r.major, minor |-> r.minor, patch |-> r.patch] = cache.version
        /\ cache.pc = "named" => r.version = cache.version

\* 4294967295.65536.10 was written as v4294967295.65536.10 and read back
C37_Witness ==
    /\ cmd = "cache"
    /\ cache.pc = "displayed"
    /\ cache.version = [major |-> [hi |-> Half - 1, lo |-> Half - 1],
                        minor |-> U32(Half), patch |-> U32(10)]
    /\ text = <<"v", "4", "2", "9", "4", "9", "6", "7", "2", "9", "5", ".",
                "6", "5", "5", "3", "6", ".", "1", "0">>
    /\ parsed # Nothing
    /\ Unwrap(parsed).err = None
    /\ Unwrap(parsed).major = cache.version.major

\* venice-v0.1000000000.65535.bin was looked up and its name read back
C37_WitnessName ==
    /\ cmd = "cache"
    /\ cache.pc = "named"
    /\ text = <<"v", "e", "n", "i", "c", "e", "-", "v", "0", ".",
                "1", "0", "0", "0", "0", "0", "0", "0", "0", "0", ".",
                "6", "5", "5", "3", "5", ".", "b", "i", "n">>
    /\ parsed # Nothing
    /\ Unwrap(parsed).err = None
    /\ Unwrap(parsed).version = cache.version

\* the versions installed_versions returned
Listed ==
    LET versions == Unwrap(cache.installed).versions IN
    {versions[i] : i \in DOMAIN versions}

\* the versions of the files of the directory named venice-<version>.bin with a valid
\* version
RuntimeFiles ==
    {RtBinFromStr(name).version :
       name \in {n \in cache.dir : /\ \A k \in DOMAIN n : n[k] # "0xFF"
                                   /\ RtBinFromStr(n).err = None}}

\* C38: installed_versions returns the version of every file of the directory that
\* is named venice-<version>.bin with a valid version, and nothing for any other
\* file; a version written to the directory by download is reported by a later
\* installed_versions call on that directory.
C38_InstalledVersions ==
    (cmd = "cache" /\ cache.installed # Nothing /\ Unwrap(cache.installed).err = None) =>
        /\ Listed = RuntimeFiles
        /\ Unwrap(cache.installed).after = "Ok" => cache.version \in Listed

-----------------------------------------------------------------------------
(* run and the terminal pass-through loop *)

\* the loop has returned: with an error, which is that of the write of the last turn,
\* to the device after a read from standard input or to standard output after a read
\* from the device
EndedByWriteError ==
    /\ term.result # "Ok"
    /\ term.last.read \in {"Ok(0)", "Ok(n)"}
    /\ term.last.branch = "stdin" =>
          /\ term.last.write \in SerialErrors
          /\ term.result = Serial(term.last.write)
    /\ term.last.branch = "device" =>
          /\ term.last.write = "Io"
          /\ term.result = "Io"
    /\ term.last.branch \in {"stdin", "device"}

\* the loop was entered by run after upload returned Ok, with upload's connection
EnteredAfterUpload ==
    /\ cli.verb = "run"
    /\ pc = "done"
    /\ result = "Ok"
    /\ "conn" \in joined
    /\ conn_task = "ok"
    /\ term.conn = "upload"

\* C39: the terminal pass-through loop never returns successfully: it ends only with
\* an error from writing to the device or to standard output; a failed read from
\* standard input or from the device is ignored and the loop goes on; run enters
\* the loop only after upload has succeeded, on the connection upload used.
C39_TerminalLoop ==
    /\ []((term.pc = "returned" /\ term.entered) => EndedByWriteError)
    /\ []((term.pc = "returned" /\ ~term.entered) => (term.result = result /\ Failed))
    /\ []((term.pc # "off" /\ term.entered) => EnteredAfterUpload)
    /\ [][(term.pc = "loop" /\ term'.last.read = "Err") => term'.pc = "loop"]_vars
    /\ [][(term.pc = "loop" /\ term'.pc = "returned") =>
             term'.last.write \notin {None, "Ok"}]_vars

\* after a failed read from the device the loop went on, and a later write to the
\* device failed: the loop returned that error
C39_Witness ==
    /\ term.pc = "returned"
    /\ term.entered
    /\ term.last = [branch |-> "stdin", read |-> "Ok(0)", write |-> "Timeout"]
    /\ term.result = Serial("Timeout")

\* a read from the device failed and the loop goes on
C39_WitnessReadIgnored ==
    /\ term.pc = "loop"
    /\ term.last = [branch |-> "device", read |-> "Err", write |-> None]

====
